---- MODULE Spec2Model ----
(***************************************************************************)
(* Site crawler of the Chat-Automation-Agent repository.                   *)
(*                                                                         *)
(* Two implementations of the same crawler are modelled over one set of    *)
(* state variables, selected by impl:                                      *)
(*   "puppeteer"  SiteCrawler           (src/scripts/site-crawler.js)      *)
(*   "extension"  SiteCrawlerExtension  (src/unnamed/part_001)             *)
(*                                                                         *)
(* Text is modelled as a sequence of tokens.  A token is either a single   *)
(* character ("/", ".", "-", "#", "?", " ") or an atomic run of characters *)
(* of one class (a word such as "about", a host such as "example.com", a   *)
(* scheme with its colon such as "https:").  A URL string is the sequence  *)
(* of its tokens, so that parsing, resolving against a base, stripping the *)
(* fragment and the query, and serialising are computed, not assumed.      *)
(***************************************************************************)
EXTENDS Integers, Sequences, FiniteSets, TLC

\* JavaScript null where a number or flag is expected, and where a string is expected
Null == "null"
NullStr == <<"null">>
\* an absent URL component (no '?' or no '#' at all; distinct from an empty one)
NoPart == <<"(none)">>

\* F applied to the value of v: v is evaluated once, however often F uses it
With(v, F(_)) == CHOOSE r \in {F(x) : x \in {v}} : TRUE

\* ------------------------------------------------------------------ text

SpecialSchemes == {"http:", "https:"}
Schemes == SpecialSchemes \cup {"mailto:"}
Hosts == {"example.com", "Example.com", "other.com"}

\* String.prototype.toLowerCase on one token
ToLower(tok) ==
    CASE tok = "Example.com" -> "example.com"
      [] tok = "About" -> "about"
      [] tok = "PDF" -> "pdf"
      [] tok = "S" -> "s"
      [] tok = "A" -> "a"
      [] tok = "B" -> "b"
      [] tok = "C" -> "c"
      [] tok = "D" -> "d"
      [] tok = "L" -> "l"
      [] tok = "O" -> "o"
      [] tok = "R" -> "r"
      [] tok = "Save" -> "save"
      [] OTHER -> tok

\* tokens all of whose characters are in [a-zA-Z0-9]
AlnumTokens == {"home", "about", "About", "docs", "team", "pdf", "PDF", "png",
                "save", "Save", "delete", "btn", "email", "button", "text", "ok",
                "a", "A", "b", "d", "e", "i", "n", "q", "s", "S", "t", "v", "x",
                "0", "1", "2", "c", "g", "h", "l", "m", "o", "r", "u",
                "B", "C", "D", "L", "O", "R"}

LowerSeq(s0) == With(s0, LAMBDA s : [i \in 1..Len(s) |-> ToLower(s[i])])

\* s.replace(/[^a-zA-Z0-9]/g, '_') : every character outside the class becomes '_'
ReplaceNonAlnum(s0) ==
    With(s0, LAMBDA s : [i \in 1..Len(s) |-> IF s[i] \in AlnumTokens THEN s[i] ELSE "_"])

\* s.replace(/[^a-z0-9]/g, '_') : as above, and upper-case letters are outside the class
ReplaceNonLowerAlnum(s0) ==
    With(s0, LAMBDA s :
        [i \in 1..Len(s) |->
            IF s[i] \in AlnumTokens /\ ToLower(s[i]) = s[i] THEN s[i] ELSE "_"])

\* index of the first occurrence of tok in s, or 0
RECURSIVE IndexFrom(_, _, _)
IndexFrom(s, tok, i) ==
    IF i > Len(s) THEN 0
    ELSE IF s[i] = tok THEN i
    ELSE IndexFrom(s, tok, i + 1)

IndexOf(s0, tok) == With(s0, LAMBDA s : IndexFrom(s, tok, 1))

\* index of the last occurrence of tok in s, or 0
RECURSIVE LastIndexFrom(_, _, _)
LastIndexFrom(s, tok, i) ==
    IF i < 1 THEN 0
    ELSE IF s[i] = tok THEN i
    ELSE LastIndexFrom(s, tok, i - 1)

LastIndexOf(s0, tok) == With(s0, LAMBDA s : LastIndexFrom(s, tok, Len(s)))

Prefix(s, n) == SubSeq(s, 1, n)
Suffix(s, n) == SubSeq(s, n, Len(s))

EndsWith(s0, t) ==
    With(s0, LAMBDA s : Len(s) >= Len(t) /\ SubSeq(s, Len(s) - Len(t) + 1, Len(s)) = t)

\* ------------------------------------------------------------------ URL

Invalid == [ok |-> FALSE]

\* s up to the position before index i (all of s when i = 0), and s after
\* index i (NoPart when i = 0)
CutBefore(s, i) == IF i = 0 THEN s ELSE Prefix(s, i - 1)
CutAfter(s, i) == IF i = 0 THEN NoPart ELSE Suffix(s, i + 1)

\* the text before the first '#', and the fragment after it (NoPart when there is no '#')
BeforeHash(s0) == With(s0, LAMBDA s : CutBefore(s, IndexOf(s, "#")))
FragmentOf(s0) == With(s0, LAMBDA s : CutAfter(s, IndexOf(s, "#")))

\* the text before the first '?', and the query after it (NoPart when there is no '?')
BeforeQuery(s0) == With(s0, LAMBDA s : CutBefore(s, IndexOf(s, "?")))
QueryOf(s0) == With(s0, LAMBDA s : CutAfter(s, IndexOf(s, "?")))

\* The URL record of scheme-and-path text rest with its query and fragment.
\* A special scheme needs "//" and a host; its empty path is "/".  The host
\* is lower-cased.  Any other scheme has an opaque path.
ParseParts(rest0, query, frag) ==
    With(rest0, LAMBDA rest :
        IF Len(rest) = 0 \/ rest[1] \notin Schemes THEN Invalid
        ELSE IF rest[1] \in SpecialSchemes
             THEN IF Len(rest) < 3 \/ rest[2] # "//" \/ rest[3] \notin Hosts THEN Invalid
                  ELSE [ok |-> TRUE, scheme |-> rest[1], host |-> ToLower(rest[3]),
                        path |-> IF Len(rest) = 3 THEN <<"/">> ELSE Suffix(rest, 4),
                        query |-> query, frag |-> frag]
             ELSE [ok |-> TRUE, scheme |-> rest[1], host |-> "",
                   path |-> Suffix(rest, 2), query |-> query, frag |-> frag])

\* new URL(url) : the URL record of an absolute URL string, or Invalid (the
\* constructor throws)
ParseAbsolute(s0) ==
    With(s0, LAMBDA s :
        ParseParts(BeforeQuery(BeforeHash(s)), QueryOf(BeforeHash(s)), FragmentOf(s)))

\* a reference rest ? query # frag resolved against the parsed base b
\* ("//host/p", "/p", "p", "?q", "#f", "")
ResolveParts(rest, query, frag, b) ==
    IF Len(rest) > 0 /\ rest[1] \in Schemes THEN ParseParts(rest, query, frag)
    ELSE IF ~b.ok \/ b.scheme \notin SpecialSchemes THEN Invalid
    ELSE IF Len(rest) > 0 /\ rest[1] = "//"
         THEN ParseParts(<<b.scheme>> \o rest, query, frag)
    ELSE IF Len(rest) > 0 /\ rest[1] = "/"
         THEN [b EXCEPT !.path = rest, !.query = query, !.frag = frag]
    ELSE IF Len(rest) > 0
         THEN [b EXCEPT !.path = Prefix(b.path, LastIndexOf(b.path, "/")) \o rest,
                        !.query = query, !.frag = frag]
    ELSE IF query # NoPart
         THEN [b EXCEPT !.query = query, !.frag = frag]
    ELSE [b EXCEPT !.frag = frag]

\* new URL(url, base) : an absolute url is parsed alone, a relative reference
\* is resolved against the base; Invalid when the constructor throws
ParseWithBase(s0, base) ==
    With(<<BeforeQuery(BeforeHash(s0)), QueryOf(BeforeHash(s0)), FragmentOf(s0),
           ParseAbsolute(base)>>,
         LAMBDA p : ResolveParts(p[1], p[2], p[3], p[4]))

\* url.toString() : the href of a URL record
Serialize(u0) ==
    With(u0, LAMBDA u :
        <<u.scheme>>
        \o (IF u.scheme \in SpecialSchemes THEN <<"//", u.host>> ELSE <<>>)
        \o u.path
        \o (IF u.query = NoPart THEN <<>> ELSE <<"?">> \o u.query)
        \o (IF u.frag = NoPart THEN <<>> ELSE <<"#">> \o u.frag))

\* url.protocol.startsWith('http')
ProtocolStartsWithHttp(u) == u.scheme \in {"http:", "https:"}

\* url.hostname ('' for a URL without host)
Hostname(u) == IF u.scheme \in SpecialSchemes THEN u.host ELSE ""

FileExtensions == {"jpg", "jpeg", "png", "gif", "pdf", "zip",
                   "doc", "docx", "xls", "xlsx", "ppt", "pptx"}

\* fileExtensions.some(ext => pathname.toLowerCase().endsWith(ext))
HasFileExtension(u) ==
    With(LowerSeq(u.path), LAMBDA pathname :
        \E ext \in FileExtensions : EndsWith(pathname, <<".", ext>>))


\* ------------------------------------------------------------------ bounds

\* largest maxPages, maxDepth and maxLinksPerPage a crawl is configured with
MaxPagesBound == 2
MaxDepthBound == 2
MaxLinksBound == 2
\* number of faults the browser shows one extension crawl: tabs that cannot be
\* created, script evaluations that fail on an open tab, 30 s timers that fire
\* while their tab is still tracked
MaxFaults == 2

\* ------------------------------------------------------------------ the web

Home == <<"https:", "//", "example.com", "/">>
AboutUrl == <<"https:", "//", "example.com", "/", "about">>
DocsUrl == <<"https:", "//", "example.com", "/", "docs">>
OtherUrl == <<"https:", "//", "other.com", "/">>

NoPage == [title |-> <<>>, anchors |-> <<>>, buttons |-> <<>>, elements |-> <<>>]

\* A web site: the page served at each URL.  anchors are the href attributes of
\* the page's <a> elements in document order (<<>> is an anchor without href),
\* buttons the texts of its buttons, elements its other interactive elements.
\* SiteScenario is the site of the two-page scenario: the start page links to
\* /about and to https://other.com, /about links back to the start page.
SiteScenario ==
    Home :> [title |-> <<"Home">>,
             anchors |-> << <<"/", "about">>, <<"https:", "//", "other.com">> >>,
             buttons |-> <<>>, elements |-> <<>>]
    @@ AboutUrl :> [title |-> <<"About">>, anchors |-> << <<"/">> >>,
                    buttons |-> <<>>, elements |-> <<>>]
    @@ OtherUrl :> [title |-> <<"Other">>, anchors |-> <<>>,
                    buttons |-> <<>>, elements |-> <<>>]

\* the start page names /about twice (once with a fragment) and /docs; /about
\* links on to /docs; the start page has a button and /about an input
SiteDup ==
    Home :> [title |-> <<"Home">>,
             anchors |-> << <<"/", "about">>, <<"/", "about", "#", "s">>, <<"/", "docs">> >>,
             buttons |-> << <<"Save">> >>, elements |-> <<>>]
    @@ AboutUrl :> [title |-> <<"About">>,
                    anchors |-> << <<"docs">>, <<"mailto:", "a">> >>,
                    buttons |-> <<>>,
                    elements |-> << [type |-> <<"text">>, name |-> <<"email">>] >>]
    @@ DocsUrl :> [title |-> <<"Docs">>,
                   anchors |-> << <<>>, <<"/", "a", ".", "pdf">>, <<"https:", "//">> >>,
                   buttons |-> <<>>, elements |-> <<>>]

Sites == {SiteScenario, SiteDup}

PageAt(web, url) == IF url \in DOMAIN web THEN web[url] ELSE NoPage

\* ------------------------------------------------------------------ state

VARIABLES
    impl,             \* which crawler runs: "puppeteer" or "extension"
    site,             \* the web site being crawled
    startUrl,         \* this.startUrl
    config,           \* this.config
    siteGraph,        \* this.siteGraph: [nodes: id -> node, edges: sequence]
    visitedUrls,      \* this.visitedUrls
    urlQueue,         \* this.urlQueue: sequence of [url, depth]
    stats,            \* this.stats
    crawlInProgress,  \* this.crawlInProgress (extension)
    tabIds,           \* this.tabIds (extension): sequence of tab ids
    pending,          \* callbacks in flight (extension): set of records
    openTabs,         \* the browser's open tabs / pages: id -> [url, status, depth]
    nextTab,          \* the id the browser gives the next tab / page
    pc,               \* position of the puppeteer crawl() / lifecycle of the crawl
    cur,              \* puppeteer: the queue entry crawlPage is working on
    progress,         \* the updates passed to the progress callback, in order
    stopResult,       \* what the last stopCrawl() returned
    faults,           \* number of faults the browser has shown so far (extension)
    hist,             \* history of the visits, for stating the claims
    args,             \* the arguments of a direct call of a helper method
    result            \* what the direct calls returned

crawlerVars == <<siteGraph, visitedUrls, urlQueue, stats>>
envVars == <<impl, site, startUrl, config, args, result>>
vars == <<impl, site, startUrl, config, siteGraph, visitedUrls, urlQueue, stats,
          crawlInProgress, tabIds, pending, openTabs, nextTab, pc, cur, progress,
          stopResult, faults, hist, args, result>>

\* new URL(startUrl).hostname
baseHostname == Hostname(ParseAbsolute(startUrl))

\* ------------------------------------------------------------------ URL helpers

\* an entry of stats.errors: the message's kind and the URL it names; visit is
\* the number of the visit during which it was appended (0 outside a visit),
\* which the message does not hold and only the claims read
Err(kind, url) == [kind |-> kind, url |-> url, visit |-> 0]

InVisit(errs0, v) ==
    With(errs0, LAMBDA errs : [i \in 1..Len(errs) |-> [errs[i] EXCEPT !.visit = v]])

\* normalizeUrl that leaves the fragment in place
NormalizeKeepsHash(absoluteUrl) ==
    IF ~absoluteUrl.ok THEN NullStr
    ELSE Serialize([absoluteUrl EXCEPT
             !.query = IF config.ignoreParams THEN NoPart ELSE @])

\* the body of normalizeUrl once new URL(url, base) gave absoluteUrl
NormalizeParsed(absoluteUrl) ==
    IF ~absoluteUrl.ok THEN NullStr
    ELSE Serialize([absoluteUrl EXCEPT
             !.frag = NoPart,
             !.query = IF config.ignoreParams THEN NoPart ELSE @])

\* normalizeUrl(url, base): the returned string, or NullStr
normalizeUrl(url, base) == With(ParseWithBase(url, base), NormalizeParsed)

\* what normalizeUrl(url, base) appends to stats.errors
normalizeUrlErrors(url, base) ==
    IF ParseWithBase(url, base).ok THEN <<>> ELSE <<Err("normalize", url)>>

\* shouldCrawl that skips every other host, whatever followExternalLinks says
ShouldCrawlSameHostOnly(url, parsedUrl, visited) ==
    IF ~parsedUrl.ok THEN FALSE
    ELSE IF ~ProtocolStartsWithHttp(parsedUrl) THEN FALSE
    ELSE IF Hostname(parsedUrl) # baseHostname THEN FALSE
    ELSE IF url \in visited THEN FALSE
    ELSE IF HasFileExtension(parsedUrl) THEN FALSE
    ELSE TRUE

\* shouldCrawl without the test of the host name
ShouldCrawlAnyHost(url, parsedUrl, visited) ==
    IF ~parsedUrl.ok THEN FALSE
    ELSE IF ~ProtocolStartsWithHttp(parsedUrl) THEN FALSE
    ELSE IF url \in visited THEN FALSE
    ELSE IF HasFileExtension(parsedUrl) THEN FALSE
    ELSE TRUE

\* the body of shouldCrawl once new URL(url) gave parsedUrl
ShouldCrawlParsed(url, parsedUrl, visited) ==
    IF ~parsedUrl.ok THEN FALSE
    ELSE IF ~ProtocolStartsWithHttp(parsedUrl) THEN FALSE
    ELSE IF ~config.followExternalLinks /\ Hostname(parsedUrl) # baseHostname THEN FALSE
    ELSE IF url \in visited THEN FALSE
    ELSE IF HasFileExtension(parsedUrl) THEN FALSE
    ELSE TRUE

\* shouldCrawl(url) against a visited set
shouldCrawlIn(url, visited) ==
    With(ParseAbsolute(url), LAMBDA parsedUrl : ShouldCrawlParsed(url, parsedUrl, visited))

shouldCrawl(url) == shouldCrawlIn(url, visitedUrls)

\* what shouldCrawl(url) appends to stats.errors
shouldCrawlErrors(url) ==
    IF ParseAbsolute(url).ok THEN <<>> ELSE <<Err("check", url)>>

\* path without its trailing slash, unless it is the root path
TrimTrailingSlash(path) ==
    IF EndsWith(path, <<"/">>) /\ path # <<"/">> THEN Prefix(path, Len(path) - 1) ELSE path

\* the root path becomes '/home'
RootToHome(path) == IF path = <<"/">> THEN <<"/", "home">> ELSE path

\* id || 'home'
OrHome(id) == IF id = <<>> THEN <<"home">> ELSE id

\* the id getNodeId derives from a URL that parses
PathId(url) ==
    With(ParseAbsolute(url).path, LAMBDA path :
        OrHome(LowerSeq(ReplaceNonAlnum(Tail(RootToHome(TrimTrailingSlash(path)))))))

\* the random tokens Math.random().toString(36).substring(2, 10) may give
RandomTokens == {"r1", "r2"}

\* getNodeId(url): the ids the call may return.  A URL that does not parse
\* makes the extension return 'unknown_<random>'; the puppeteer crawler throws.
getNodeIds(url) ==
    IF ParseAbsolute(url).ok THEN {PathId(url)}
    ELSE IF impl = "extension" THEN {<<"unknown", "_", r>> : r \in RandomTokens}
    ELSE {}

\* getNodeId(url) for the URL of a page that was loaded, which parses
getNodeId(url) == PathId(url)


\* ------------------------------------------------------------------ graph store

CreateFields == {"id", "url", "title", "description", "headings", "links", "forms",
                 "buttons", "inputs", "screenshot", "lastVisited"}
VirtualFields == {"id", "url", "title", "virtual", "parentUrl", "actionType",
                  "actionText", "actionSelector", "lastVisited"}

\* addNode once getNodeId(url) gave id: create the node, or merge the metadata over it
addNodeAs(graph, id, url, metadata) ==
    IF id \notin DOMAIN graph.nodes
    THEN [graph EXCEPT !.nodes = @ @@ (id :>
             [id |-> id, url |-> url, title |-> metadata.title,
              virtual |-> FALSE, fields |-> CreateFields])]
    ELSE [graph EXCEPT !.nodes[id] =
             [@ EXCEPT !.title = metadata.title,
                       !.url = IF "url" \in metadata.fields THEN metadata.url ELSE @,
                       !.fields = @ \cup metadata.fields \cup {"lastVisited"}]]

\* addNode(url, metadata)
addNode(graph, url, metadata) ==
    With(getNodeId(url), LAMBDA id : addNodeAs(graph, id, url, metadata))

\* addEdge that puts the new edge in front of the list
addEdgeInFront(graph, fromUrl, toUrl, type) ==
    [graph EXCEPT !.edges =
        <<[from |-> getNodeId(fromUrl), to |-> getNodeId(toUrl), type |-> type]>> \o @]

\* addEdge(fromUrl, toUrl, {type}): always appended
addEdge(graph, fromUrl, toUrl, type) ==
    [graph EXCEPT !.edges = Append(@,
        [from |-> getNodeId(fromUrl), to |-> getNodeId(toUrl), type |-> type])]

\* `${nodeId}_button_${text.toLowerCase().replace(/[^a-z0-9]/g, '_')}`
ButtonNodeId(nodeId, text) ==
    nodeId \o <<"_", "button", "_">> \o ReplaceNonLowerAlnum(LowerSeq(text))

\* the virtual node buttonNodeId of a button and the 'button' edge to it
addButtonAs(graph, url, nodeId, buttonNodeId, title, text) ==
    [nodes |-> [i \in DOMAIN graph.nodes \cup {buttonNodeId} |->
                   IF i = buttonNodeId
                   THEN [id |-> buttonNodeId, url |-> url \o <<"#", "action-">> \o text,
                         title |-> <<"After">> \o text \o <<"on">> \o title,
                         virtual |-> TRUE, fields |-> VirtualFields]
                   ELSE graph.nodes[i]],
     edges |-> Append(graph.edges,
                   [from |-> nodeId, to |-> buttonNodeId, type |-> "button"])]

addButton(graph, url, nodeId, title, text) ==
    With(ButtonNodeId(nodeId, text), LAMBDA buttonNodeId :
        addButtonAs(graph, url, nodeId, buttonNodeId, title, text))

RealNodes(graph) == {i \in DOMAIN graph.nodes : ~graph.nodes[i].virtual}

\* ------------------------------------------------------------------ link processing

\* One step of the loop over a page's links, once normalizeUrl gave
\* normalizedUrl: st is [graph, queue, errors], the crawler state the loop has
\* changed so far.  enqueue says whether the target goes on the queue, depth
\* is the depth it gets.
ProcessNormalized(st, url, normalizedUrl, visited, enqueue, depth) ==
    IF normalizedUrl = NullStr THEN st
    ELSE IF ~shouldCrawlIn(normalizedUrl, visited)
         THEN [st EXCEPT !.errors = @ \o shouldCrawlErrors(normalizedUrl)]
    ELSE [graph |-> addEdge(st.graph, url, normalizedUrl, "link"),
          queue |-> IF enqueue
                    THEN Append(st.queue, [url |-> normalizedUrl, depth |-> depth])
                    ELSE st.queue,
          errors |-> st.errors]

ProcessLink(st, url, href, visited, enqueue, depth) ==
    With(normalizeUrl(href, url), LAMBDA normalizedUrl :
        ProcessNormalized([st EXCEPT !.errors = @ \o normalizeUrlErrors(href, url)],
                          url, normalizedUrl, visited, enqueue, depth))

\* ------------------------------------------------------------------ construction

\* new Date().toISOString(): some time stamp
Stamp == "time"

Configs ==
    [maxDepth : 0..MaxDepthBound, maxPages : 1..MaxPagesBound,
     maxLinksPerPage : {MaxLinksBound}, ignoreParams : {TRUE},
     followExternalLinks : BOOLEAN, includeScreenshots : BOOLEAN,
     captureButtonInteractions : {TRUE}]

\* no direct call of a helper method
NoCall == [op |-> "none"]

\* the state the constructor leaves in the crawler's own fields
Constructed ==
    /\ siteGraph = [nodes |-> <<>>, edges |-> <<>>]
    /\ visitedUrls = {}
    /\ urlQueue = <<>>
    /\ stats = [pagesVisited |-> 0, linksFound |-> 0, elementsFound |-> 0,
                startTime |-> Null, endTime |-> Null, errors |-> <<>>]
    /\ crawlInProgress = FALSE
    /\ tabIds = <<>>
    /\ pending = {}
    /\ openTabs = <<>>
    /\ nextTab = 1
    /\ pc = "idle"
    /\ cur = [url |-> <<>>, depth |-> 0, visit |-> 0]
    /\ progress = <<>>
    /\ stopResult = [success |-> FALSE]
    /\ faults = 0
    /\ hist = [visits |-> <<>>, navFailed |-> {}]

\* a crawler constructed for the start URL, on some site, with some configuration
Init ==
    /\ impl \in {"puppeteer", "extension"}
    /\ site \in Sites
    /\ startUrl = Home
    /\ config \in Configs
    /\ impl = "puppeteer" => config.includeScreenshots
    /\ args = NoCall
    /\ result = NoCall
    /\ Constructed

extOnly == <<crawlInProgress, tabIds, pending, progress, stopResult, faults>>

\* ------------------------------------------------------------------ puppeteer crawler

MetadataFields == {"title", "description", "headings", "links", "forms", "buttons",
                   "inputs", "screenshot"}

Min(a, b) == IF a < b THEN a ELSE b

AsLinks(hrefs) == [i \in 1..Len(hrefs) |-> [type |-> "link", url |-> hrefs[i]]]
AsButtons(texts) == [i \in 1..Len(texts) |-> [type |-> "button", text |-> texts[i]]]

\* extractLinks(page, url): the first maxLinksPerPage anchors that have an
\* href, as links, followed by every button
ExtractLinks(page) ==
    AsLinks(SelectSeq(SubSeq(page.anchors, 1,
                             Min(Len(page.anchors), config.maxLinksPerPage)),
                      LAMBDA h : h # <<>>))
    \o AsButtons(page.buttons)

\* one extracted entry: a link is normalized, filtered, edged and queued at
\* depth + 1; a button gets its virtual node
PuppeteerLink(st, url, title, link, depth, visited) ==
    IF link.type = "link"
    THEN ProcessLink(st, url, link.url, visited, TRUE, depth + 1)
    ELSE [st EXCEPT !.graph = addButton(st.graph, url, getNodeId(url), title, link.text)]

\* the loop of crawlPage over the extracted links, from the i-th on
RECURSIVE PuppeteerLinks(_, _, _, _, _, _, _)
PuppeteerLinks(st0, url, title, links, depth, visited, i) ==
    With(st0, LAMBDA st :
        IF i > Len(links) THEN st
        ELSE PuppeteerLinks(PuppeteerLink(st, url, title, links[i], depth, visited),
                            url, title, links, depth, visited, i + 1))

\* crawl(): up to and including puppeteer.launch and the push of the start URL
PCrawlStart ==
    /\ impl = "puppeteer" /\ pc = "idle"
    /\ \E launched \in BOOLEAN :
         IF launched
         THEN /\ urlQueue' = Append(urlQueue, [url |-> startUrl, depth |-> 0])
              /\ stats' = [stats EXCEPT !.startTime = Stamp]
              /\ pc' = "loop"
         ELSE /\ stats' = [stats EXCEPT !.startTime = Stamp,
                                        !.errors = Append(@, Err("during", startUrl))]
              /\ pc' = "failed"
              /\ UNCHANGED urlQueue
    /\ UNCHANGED <<envVars, siteGraph, visitedUrls, extOnly, openTabs, nextTab, cur, hist>>

\* one test of the while loop of crawl(): shift the head and enter crawlPage,
\* which returns at once or marks the URL visited; or leave the loop
PLoopNext ==
    /\ impl = "puppeteer" /\ pc = "loop"
    /\ IF Len(urlQueue) > 0 /\ stats.pagesVisited < config.maxPages
       THEN /\ urlQueue' = Tail(urlQueue)
            /\ IF ~shouldCrawl(urlQueue[1].url) \/ urlQueue[1].depth > config.maxDepth
                  \/ stats.pagesVisited >= config.maxPages
               THEN /\ stats' = [stats EXCEPT
                                    !.errors = @ \o shouldCrawlErrors(urlQueue[1].url)]
                    /\ UNCHANGED <<visitedUrls, pc, cur, nextTab>>
               ELSE /\ visitedUrls' = visitedUrls \cup {urlQueue[1].url}
                    /\ cur' = [url |-> urlQueue[1].url, depth |-> urlQueue[1].depth,
                               visit |-> nextTab]
                    /\ nextTab' = nextTab + 1
                    /\ pc' = "page"
                    /\ UNCHANGED stats
       ELSE /\ pc' = "export"
            /\ stats' = [stats EXCEPT !.endTime = Stamp]
            /\ UNCHANGED <<urlQueue, visitedUrls, cur, nextTab>>
    /\ UNCHANGED <<envVars, siteGraph, extOnly, openTabs, hist>>

\* browser.newPage() and the set-up of the page; a failure is caught by crawlPage
PNewPage ==
    /\ impl = "puppeteer" /\ pc = "page"
    /\ \E opened \in BOOLEAN :
         IF opened
         THEN /\ openTabs' = openTabs @@ (cur.visit :> [url |-> cur.url, status |-> "loading",
                                                       depth |-> cur.depth])
              /\ pc' = "goto"
              /\ UNCHANGED <<stats, hist>>
         ELSE /\ stats' = [stats EXCEPT
                              !.errors = @ \o InVisit(<<Err("crawl", cur.url)>>, cur.visit)]
              /\ hist' = [hist EXCEPT !.navFailed = @ \cup {cur.visit}]
              /\ pc' = "loop"
              /\ UNCHANGED openTabs
    /\ UNCHANGED <<envVars, siteGraph, visitedUrls, urlQueue, extOnly, nextTab, cur>>

\* page.goto(url, {timeout}) times out or fails: crawlPage's catch records it
PGotoFail ==
    /\ impl = "puppeteer" /\ pc = "goto"
    /\ stats' = [stats EXCEPT
                    !.errors = @ \o InVisit(<<Err("crawl", cur.url)>>, cur.visit)]
    /\ hist' = [hist EXCEPT !.navFailed = @ \cup {cur.visit}]
    /\ pc' = "loop"
    /\ UNCHANGED <<envVars, siteGraph, visitedUrls, urlQueue, extOnly, openTabs, nextTab, cur>>

\* the end of crawlPage: st is what the link loop left, n the number of
\* extracted links, closed whether page.close() succeeded
PVisitEnd(st, n, closed) ==
    /\ siteGraph' = st.graph
    /\ urlQueue' = st.queue
    /\ stats' = [stats EXCEPT
           !.linksFound = @ + n,
           !.pagesVisited = @ + 1,
           !.errors = @ \o InVisit(st.errors
                           \o IF closed THEN <<>> ELSE <<Err("crawl", cur.url)>>,
                           cur.visit)]
    /\ openTabs' = IF closed
                   THEN [t \in DOMAIN openTabs \ {cur.visit} |-> openTabs[t]]
                   ELSE openTabs
    /\ hist' = [hist EXCEPT !.visits = Append(@, cur)]

\* crawlPage from addNode on, with the metadata and the links extracted
PVisitLinks(url, metadata, links, errs, closed) ==
    \E st \in {PuppeteerLinks([graph |-> addNode(siteGraph, url, metadata),
                                queue |-> urlQueue, errors |-> errs],
                               url, metadata.title, links, cur.depth, visitedUrls, 1)} :
        PVisitEnd(st, Len(links), closed)

\* page.goto succeeded: the rest of crawlPage.  metaOk and linksOk say whether
\* the two page.evaluate calls succeed, closed whether page.close() does.
PProcessPage ==
    /\ impl = "puppeteer" /\ pc = "goto"
    /\ \E metaOk \in BOOLEAN, linksOk \in BOOLEAN, closed \in BOOLEAN :
         PVisitLinks(cur.url,
             [title |-> IF metaOk THEN PageAt(site, cur.url).title ELSE <<>>,
              fields |-> MetadataFields],
             IF linksOk THEN ExtractLinks(PageAt(site, cur.url)) ELSE <<>>,
             (IF metaOk THEN <<>> ELSE <<Err("metadata", cur.url)>>)
                 \o (IF linksOk THEN <<>> ELSE <<Err("links", cur.url)>>),
             closed)
    /\ pc' = "loop"
    /\ UNCHANGED <<envVars, visitedUrls, extOnly, nextTab, cur>>

\* crawl() after the loop: exportGraph, browser.close, return; a failed
\* export is recorded twice (by exportGraph and by crawl) and thrown on
PFinish ==
    /\ impl = "puppeteer" /\ pc = "export"
    /\ \E exported \in BOOLEAN :
         IF exported
         THEN pc' = "done" /\ UNCHANGED stats
         ELSE /\ pc' = "failed"
              /\ stats' = [stats EXCEPT !.errors =
                             @ \o <<Err("export", startUrl), Err("during", startUrl)>>]
    /\ openTabs' = <<>>
    /\ UNCHANGED <<envVars, siteGraph, visitedUrls, urlQueue, extOnly, nextTab, cur, hist>>

NextPuppeteer == PCrawlStart \/ PLoopNext \/ PNewPage \/ PGotoFail \/ PProcessPage \/ PFinish


\* ------------------------------------------------------------------ extension crawler

\* The crawler's mutable state as one record, for the handlers that call
\* one another.
Now ==
    [siteGraph |-> siteGraph, visitedUrls |-> visitedUrls, urlQueue |-> urlQueue,
     stats |-> stats, crawlInProgress |-> crawlInProgress, tabIds |-> tabIds,
     pending |-> pending, openTabs |-> openTabs, nextTab |-> nextTab, pc |-> pc,
     progress |-> progress, hist |-> hist]

\* the state S a handler leaves becomes the crawler's state
Install(S) ==
    \E T \in {S} :
        /\ siteGraph' = T.siteGraph
        /\ visitedUrls' = T.visitedUrls
        /\ urlQueue' = T.urlQueue
        /\ stats' = T.stats
        /\ crawlInProgress' = T.crawlInProgress
        /\ tabIds' = T.tabIds
        /\ pending' = T.pending
        /\ openTabs' = T.openTabs
        /\ nextTab' = T.nextTab
        /\ pc' = T.pc
        /\ progress' = T.progress
        /\ hist' = T.hist

PushError(S, e, visit) ==
    [S EXCEPT !.stats.errors = @ \o InVisit(<<e>>, visit)]

\* finishCrawl that leaves the crawl in progress
finishCrawlNotEnding(S0) == S0

\* finishCrawl(): end the crawl, save the graph, make the final progress call
finishCrawl(S0) ==
    With(S0, LAMBDA S :
        [S EXCEPT !.crawlInProgress = FALSE,
                  !.stats.endTime = Stamp,
                  !.pc = "completed",
                  !.progress = Append(@, [complete |-> TRUE,
                                          pagesVisited |-> S.stats.pagesVisited])])

\* processNextUrl() with the crawlUrl(url) it calls: queue entries that
\* shouldCrawl rejects are dropped one after the other; the first that passes
\* gets a tab (chrome.tabs.create, whose callback is then in flight); with
\* nothing left or the page cap reached or the crawl stopped, finishCrawl().
RECURSIVE processNextUrl(_)
processNextUrl(S0) ==
    With(S0, LAMBDA S :
        IF Len(S.urlQueue) > 0 /\ S.stats.pagesVisited < config.maxPages
           /\ S.crawlInProgress
        THEN IF ~shouldCrawlIn(S.urlQueue[1].url, S.visitedUrls)
             THEN processNextUrl(
                      [S EXCEPT !.urlQueue = Tail(@),
                                !.stats.errors = @ \o shouldCrawlErrors(S.urlQueue[1].url)])
             ELSE [S EXCEPT
                      !.urlQueue = Tail(@),
                      !.pending = @ \cup {[type |-> "created", tab |-> S.nextTab,
                                           url |-> S.urlQueue[1].url,
                                           depth |-> S.urlQueue[1].depth]},
                      !.nextTab = @ + 1]
        ELSE finishCrawl(S))

\* continueToNextUrl(): close the first tracked tab and go on from the
\* callback of chrome.tabs.remove, or go on at once when no tab is tracked
continueToNextUrl(S0) ==
    With(S0, LAMBDA S :
        IF Len(S.tabIds) > 0
        THEN [S EXCEPT !.tabIds = Tail(@),
                       !.openTabs = [t \in DOMAIN @ \ {S.tabIds[1]} |-> @[t]],
                       !.pending = @ \cup {[type |-> "removed", tab |-> S.tabIds[1]]}]
        ELSE processNextUrl(S))

\* entry ? entry.depth : this.config.maxDepth
DepthOrMax(found) == IF Len(found) > 0 THEN found[1].depth ELSE config.maxDepth

\* getDepthForUrl(url): 0 for the start URL, else the depth of the first queue
\* entry with this URL, else maxDepth
getDepthForUrl(url, queue) ==
    IF url = startUrl THEN 0
    ELSE DepthOrMax(SelectSeq(queue, LAMBDA item : item.url = url))

\* extractedLinks of extractPageDataScript: every anchor that has an href
ExtractedLinks(page) == SelectSeq(page.anchors, LAMBDA h : h # <<>>)

\* one link of processPageData, with currentDepth = getDepthForUrl(url)
ExtensionLink(st, url, href, visited, currentDepth) ==
    ProcessLink(st, url, href, visited, currentDepth < config.maxDepth, currentDepth + 1)

\* the loop of processPageData over extractedLinks, from the i-th on
RECURSIVE ExtensionLinks(_, _, _, _, _)
ExtensionLinks(st0, url, links, visited, i) ==
    With(st0, LAMBDA st :
        IF i > Len(links) THEN st
        ELSE ExtensionLinks(
                 ExtensionLink(st, url, links[i], visited, getDepthForUrl(url, st.queue)),
                 url, links, visited, i + 1))

\* the loop of processPageData over extractedButtons, from the i-th on
RECURSIVE ExtensionButtons(_, _, _, _, _)
ExtensionButtons(graph0, url, title, buttons, i) ==
    With(graph0, LAMBDA graph :
        IF i > Len(buttons) THEN graph
        ELSE ExtensionButtons(addButton(graph, url, getNodeId(url), title, buttons[i]),
                              url, title, buttons, i + 1))

PageDataFields == {"title", "description", "path", "headings", "links", "forms", "buttons",
                   "inputs", "extractedLinks", "extractedButtons", "extractedForms",
                   "interactiveElements", "modals", "url", "timestamp", "screenshot",
                   "isFormPage", "hasModals", "pageType"}

\* updateProgress(): one call of the progress callback
updateProgress(S0) ==
    With(S0, LAMBDA S :
        [S EXCEPT !.progress = Append(@, [complete |-> FALSE,
                                          pagesVisited |-> S.stats.pagesVisited])])

\* the end of processPageData: st is what the link loop left; the buttons'
\* virtual nodes, the counters, updateProgress and continueToNextUrl
PageDataEnd(S, cb, page, st) ==
    continueToNextUrl(updateProgress(
        [S EXCEPT
            !.siteGraph = IF config.captureButtonInteractions
                          THEN ExtensionButtons(st.graph, cb.url, page.title,
                                                page.buttons, 1)
                          ELSE st.graph,
            !.visitedUrls = @ \cup {cb.url},
            !.urlQueue = st.queue,
            !.stats.pagesVisited = @ + 1,
            !.stats.elementsFound = @ + Len(page.elements) + Len(page.buttons),
            !.stats.linksFound = @ + Len(ExtractedLinks(page)),
            !.stats.errors = @ \o InVisit(st.errors, cb.tab),
            !.hist.visits = Append(@, [url |-> cb.url, depth |-> cb.depth,
                                       visit |-> cb.tab])]))

\* processPageData for the page served at the URL: addNode, then the links
PageDataOf(S, cb, page) ==
    With(ExtensionLinks(
             [graph |-> addNode(S.siteGraph, cb.url,
                                [title |-> page.title, url |-> cb.url,
                                 fields |-> PageDataFields]),
              queue |-> S.urlQueue, errors |-> <<>>],
             cb.url, ExtractedLinks(page), S.visitedUrls \cup {cb.url}, 1),
         LAMBDA st : PageDataEnd(S, cb, page, st))

\* processPageData(url, pageData) for the data of the visit cb; pageData null
\* makes the first statement throw, which the handler's catch records
processPageData(S0, cb) ==
    With(S0, LAMBDA S :
        IF cb.data = "null"
        THEN continueToNextUrl(PushError(S, Err("process", cb.url), cb.tab))
        ELSE PageDataOf(S, cb, PageAt(site, cb.url)))

Deliver(S, cb) == [S EXCEPT !.pending = @ \ {cb}]

Tracked(t) == \E i \in 1..Len(tabIds) : tabIds[i] = t

\* startCrawl(progressCallback), called once on a new crawler, as
\* startExtensionCrawl does
StartCrawl ==
    /\ impl = "extension" /\ pc = "idle" /\ ~crawlInProgress
    /\ Install(processNextUrl(
           [Now EXCEPT !.crawlInProgress = TRUE,
                       !.pc = "running",
                       !.stats.startTime = Stamp,
                       !.urlQueue = <<[url |-> startUrl, depth |-> 0]>>]))
    /\ UNCHANGED <<envVars, cur, stopResult, faults>>

\* the callback of chrome.tabs.create in crawlUrl, without lastError: the tab
\* is tracked and its 30 s timer set
TabCreated ==
    /\ impl = "extension"
    /\ \E cb \in pending :
         /\ cb.type = "created"
         /\ Install([Deliver(Now, cb) EXCEPT
                !.tabIds = Append(@, cb.tab),
                !.openTabs = @ @@ (cb.tab :> [url |-> cb.url, status |-> "loading",
                                              depth |-> cb.depth]),
                !.pending = @ \cup {[type |-> "timer", tab |-> cb.tab,
                                     url |-> cb.url, depth |-> cb.depth]}])
    /\ UNCHANGED <<envVars, cur, stopResult, faults>>

\* the callback of chrome.tabs.create in crawlUrl, with lastError
TabCreateFailed ==
    /\ impl = "extension" /\ faults < MaxFaults
    /\ \E cb \in pending :
         /\ cb.type = "created"
         /\ Install(processNextUrl(
                PushError([Deliver(Now, cb) EXCEPT !.hist.navFailed = @ \cup {cb.tab}],
                          Err("createTab", cb.url), cb.tab)))
    /\ faults' = faults + 1
    /\ UNCHANGED <<envVars, cur, stopResult>>

\* chrome.tabs.onUpdated with status 'complete' for a tab that was loading:
\* the listener of setupTabListeners and the processLoadedPage it calls,
\* up to the call of chrome.scripting.executeScript.  The listener ignores
\* the event of a tab it does not track and every event outside a crawl.
TabLoaded ==
    /\ impl = "extension"
    /\ crawlInProgress
    /\ \E t \in DOMAIN openTabs :
         /\ openTabs[t].status = "loading"
         /\ Tracked(t)
         /\ Install([Now EXCEPT
                !.openTabs[t].status = "complete",
                !.pending = @ \cup {[type |-> "script", tab |-> t, url |-> openTabs[t].url,
                                     depth |-> openTabs[t].depth]}])
    /\ UNCHANGED <<envVars, cur, stopResult, faults>>

\* what the callback of chrome.scripting.executeScript does with page data:
\* with screenshots enabled the data wait for chrome.tabs.captureVisibleTab
ScriptDone(cb, res) ==
    IF config.includeScreenshots
    THEN Install([Deliver(Now, cb) EXCEPT !.pending = @ \cup
             {[type |-> "shot", tab |-> cb.tab, url |-> cb.url,
               depth |-> cb.depth, data |-> res]}])
    ELSE Install(processPageData(Deliver(Now, cb),
             [type |-> "shot", tab |-> cb.tab, url |-> cb.url,
              depth |-> cb.depth, data |-> res]))

\* the callback of chrome.scripting.executeScript in processLoadedPage, with
\* the page data (also of a tab closed after the script ran)
ScriptResult ==
    /\ impl = "extension"
    /\ \E cb \in pending :
         /\ cb.type = "script"
         /\ ScriptDone(cb, "ok")
    /\ UNCHANGED <<envVars, cur, stopResult, faults>>

\* the same callback without results: always possible when the tab is gone,
\* a fault of the page when it is open
ScriptFailed ==
    /\ impl = "extension"
    /\ \E cb \in pending :
         /\ cb.type = "script"
         /\ IF cb.tab \in DOMAIN openTabs
            THEN faults < MaxFaults /\ faults' = faults + 1
            ELSE faults' = faults
         /\ Install(continueToNextUrl(
                PushError(Deliver(Now, cb), Err("extract", cb.url), cb.tab)))
    /\ UNCHANGED <<envVars, cur, stopResult>>

\* the same callback with a null result, which processPageData cannot read
ScriptNull ==
    /\ impl = "extension" /\ faults < MaxFaults
    /\ \E cb \in pending :
         /\ cb.type = "script"
         /\ cb.tab \in DOMAIN openTabs
         /\ ScriptDone(cb, "null")
    /\ faults' = faults + 1
    /\ UNCHANGED <<envVars, cur, stopResult>>

\* the callback of chrome.tabs.captureVisibleTab: with or without an image,
\* processPageData(url, pageData)
ScreenshotResult ==
    /\ impl = "extension"
    /\ \E cb \in pending :
         /\ cb.type = "shot"
         /\ Install(processPageData(Deliver(Now, cb), cb))
    /\ UNCHANGED <<envVars, cur, stopResult, faults>>

\* the 30 s timer set by crawlUrl when the tab was created; it does nothing
\* when the tab is no longer tracked
LoadTimeout ==
    /\ impl = "extension" /\ faults < MaxFaults
    /\ \E cb \in pending :
         /\ cb.type = "timer"
         /\ Tracked(cb.tab)
         /\ Install(continueToNextUrl(
                PushError([Deliver(Now, cb) EXCEPT
                              !.hist.navFailed =
                                  IF cb.tab \in DOMAIN openTabs
                                     /\ openTabs[cb.tab].status = "loading"
                                  THEN @ \cup {cb.tab} ELSE @],
                          Err("timeout", cb.url), cb.tab)))
    /\ faults' = faults + 1
    /\ UNCHANGED <<envVars, cur, stopResult>>

\* the callback of chrome.tabs.remove in continueToNextUrl
TabRemoved ==
    /\ impl = "extension"
    /\ \E cb \in pending :
         /\ cb.type = "removed"
         /\ Install(processNextUrl(Deliver(Now, cb)))
    /\ UNCHANGED <<envVars, cur, stopResult, faults>>

\* stopCrawl that also starts the graph afresh
StopCrawlReset ==
    /\ impl = "extension" /\ crawlInProgress
    /\ crawlInProgress' = FALSE
    /\ openTabs' = [t \in DOMAIN openTabs \ {tabIds[i] : i \in 1..Len(tabIds)} |-> openTabs[t]]
    /\ tabIds' = <<>>
    /\ siteGraph' = [nodes |-> <<>>, edges |-> <<>>]
    /\ stats' = [stats EXCEPT !.endTime = Stamp]
    /\ stopResult' = [success |-> TRUE, pagesVisited |-> stats.pagesVisited,
                      elementsFound |-> stats.elementsFound, errors |-> Len(stats.errors)]
    /\ pc' = "stopped"
    /\ UNCHANGED <<envVars, visitedUrls, urlQueue, pending, nextTab, cur,
                   progress, faults, hist>>

\* stopCrawl(), called while the crawl is in progress
StopCrawl ==
    /\ impl = "extension" /\ crawlInProgress
    /\ crawlInProgress' = FALSE
    /\ openTabs' = [t \in DOMAIN openTabs \ {tabIds[i] : i \in 1..Len(tabIds)} |-> openTabs[t]]
    /\ tabIds' = <<>>
    /\ stats' = [stats EXCEPT !.endTime = Stamp]
    /\ stopResult' = [success |-> TRUE, pagesVisited |-> stats.pagesVisited,
                      elementsFound |-> stats.elementsFound, errors |-> Len(stats.errors)]
    /\ pc' = "stopped"
    /\ UNCHANGED <<envVars, siteGraph, visitedUrls, urlQueue, pending, nextTab, cur,
                   progress, faults, hist>>

\* the callbacks the browser delivers to the extension crawler
Callbacks ==
    \/ TabCreated \/ TabCreateFailed \/ TabLoaded \/ LoadTimeout \/ TabRemoved
    \/ ScriptResult \/ ScriptFailed \/ ScriptNull \/ ScreenshotResult

NextExtension == StartCrawl \/ Callbacks \/ StopCrawl

Next == NextPuppeteer \/ NextExtension

Spec == Init /\ [][Next]_vars

\* The crawl under fair scheduling: an awaited step of crawl() is resumed, and
\* while the browser owes the extension callbacks (tab created, page loaded,
\* timer fired, script result, screenshot, tab removed) it delivers one.
FairSpec ==
    /\ Init /\ [][Next]_vars
    /\ WF_vars(NextPuppeteer)
    /\ WF_vars(Callbacks)

\* ------------------------------------------------------------------ direct calls of the URL helpers

\* what the direct calls leave alone
callFrame == <<impl, site, startUrl, config, args, siteGraph, urlQueue, crawlInProgress,
               tabIds, pending, openTabs, nextTab, pc, cur, progress, stopResult,
               faults, hist>>

AboutSlash == <<"https:", "//", "example.com", "/", "about", "/">>

\* URL strings a page or a caller may hand to the helpers: absolute ones with
\* and without query and fragment, relative references, another host, a file,
\* another scheme, and strings that are no URL
UrlPool ==
    { AboutUrl, AboutUrl \o <<"#", "s">>, AboutUrl \o <<"#">>, AboutUrl \o <<"?", "q">>,
      AboutUrl \o <<"?", "q", "#", "s">>, AboutSlash,
      <<"https:", "//", "Example.com", "/", "About">>,
      <<"/", "about">>, <<"/", "about", "#", "s">>, <<"#", "s">>, <<>>,
      OtherUrl, OtherUrl \o <<"#", "s">>, OtherUrl \o <<"a", ".", "PDF">>,
      <<"mailto:", "a">>, <<"mailto:", "a", "#", "s">>, <<"https:", "//">> }

UrlConfigs ==
    [maxDepth : {MaxDepthBound}, maxPages : {MaxPagesBound},
     maxLinksPerPage : {MaxLinksBound}, ignoreParams : BOOLEAN,
     followExternalLinks : BOOLEAN, includeScreenshots : {TRUE},
     captureButtonInteractions : {TRUE}]

\* a crawler constructed for the start URL, and the arguments of the calls to come
InitUrl ==
    /\ impl \in {"puppeteer", "extension"}
    /\ site = SiteScenario
    /\ startUrl = Home
    /\ config \in UrlConfigs
    /\ args \in [op : {"url"}, a : UrlPool, b : UrlPool, base : {Home, AboutSlash}]
    /\ result = NoCall
    /\ Constructed

\* this.visitedUrls.add(url), as a visit does
MarkVisited ==
    /\ result = NoCall /\ visitedUrls = {}
    /\ visitedUrls' = {args.a}
    /\ UNCHANGED <<callFrame, stats, result>>

\* normalizeUrl(a, base) and normalizeUrl(b, base)
CallNormalizeUrl ==
    /\ result = NoCall
    /\ result' = [op |-> "normalizeUrl", threw |-> FALSE,
                  a |-> normalizeUrl(args.a, args.base),
                  b |-> normalizeUrl(args.b, args.base)]
    /\ stats' = [stats EXCEPT !.errors = @ \o normalizeUrlErrors(args.a, args.base)
                                           \o normalizeUrlErrors(args.b, args.base)]
    /\ UNCHANGED <<callFrame, visitedUrls>>

\* what getNodeId(url) appends to stats.errors in the extension
getNodeIdErrors(url) ==
    IF ParseAbsolute(url).ok THEN <<>> ELSE <<Err("id", url)>>

\* getNodeId(a) and getNodeId(b); the puppeteer crawler's getNodeId throws on
\* a string new URL() rejects
CallGetNodeId ==
    /\ result = NoCall
    /\ IF impl = "puppeteer" /\ (~ParseAbsolute(args.a).ok \/ ~ParseAbsolute(args.b).ok)
       THEN /\ result' = [op |-> "getNodeId", threw |-> TRUE, a |-> NullStr, b |-> NullStr]
            /\ UNCHANGED stats
       ELSE /\ \E ida \in getNodeIds(args.a), idb \in getNodeIds(args.b) :
                 result' = [op |-> "getNodeId", threw |-> FALSE, a |-> ida, b |-> idb]
            /\ stats' = [stats EXCEPT !.errors = @ \o getNodeIdErrors(args.a)
                                                   \o getNodeIdErrors(args.b)]
    /\ UNCHANGED <<callFrame, visitedUrls>>

\* shouldCrawl(a) and shouldCrawl(b)
CallShouldCrawl ==
    /\ result = NoCall
    /\ result' = [op |-> "shouldCrawl", threw |-> FALSE,
                  a |-> shouldCrawl(args.a), b |-> shouldCrawl(args.b)]
    /\ stats' = [stats EXCEPT !.errors = @ \o shouldCrawlErrors(args.a)
                                           \o shouldCrawlErrors(args.b)]
    /\ UNCHANGED <<callFrame, visitedUrls>>

NextUrl == MarkVisited \/ CallNormalizeUrl \/ CallGetNodeId \/ CallShouldCrawl

SpecUrl == InitUrl /\ [][NextUrl]_vars

\* ------------------------------------------------------------------ keyword generation

\* In generateElementKeyword text is a sequence of single characters.

\* .substring(0, 50) of the keyword and .substring(0, 60) of the full keyword
KeywordMax == 50
FullKeywordMax == 60

\* number of calls of generateElementKeyword made on one element
MaxRuns == 2

\* s.substring(0, n)
Truncate(s, n) == SubSeq(s, 1, Min(Len(s), n))

\* String.prototype.trim
RECURSIVE TrimStart(_)
TrimStart(s) == IF s # <<>> /\ Head(s) = " " THEN TrimStart(Tail(s)) ELSE s

RECURSIVE TrimEnd(_)
TrimEnd(s) == IF s # <<>> /\ s[Len(s)] = " " THEN TrimEnd(Prefix(s, Len(s) - 1)) ELSE s

Trim(s) == TrimEnd(TrimStart(s))

\* s.includes(w)
Includes(s, w) == \E i \in 1..(Len(s) - Len(w) + 1) : SubSeq(s, i, i + Len(w) - 1) = w

ActionWords ==
    << <<"c", "r", "e", "a", "t", "e">>, <<"a", "d", "d">>, <<"e", "d", "i", "t">>,
       <<"u", "p", "d", "a", "t", "e">>, <<"d", "e", "l", "e", "t", "e">>,
       <<"r", "e", "m", "o", "v", "e">>, <<"s", "u", "b", "m", "i", "t">>,
       <<"s", "a", "v", "e">>, <<"c", "a", "n", "c", "e", "l">>,
       <<"c", "l", "o", "s", "e">>, <<"o", "p", "e", "n">>,
       <<"s", "e", "a", "r", "c", "h">>, <<"f", "i", "l", "t", "e", "r">>,
       <<"s", "e", "l", "e", "c", "t">>, <<"u", "p", "l", "o", "a", "d">>,
       <<"d", "o", "w", "n", "l", "o", "a", "d">>,
       <<"v", "a", "l", "i", "d", "a", "t", "e">>, <<"v", "e", "r", "i", "f", "y">>,
       <<"r", "u", "n">>, <<"e", "x", "e", "c", "u", "t", "e">>,
       <<"a", "p", "p", "l", "y">> >>

\* the strings Math.random().toString(36).substring(2, 10) may give
RandomStrings == { <<"0", "0", "0", "0", "0", "0", "0", c>> : c \in {"1", "2"} }

\* RawKeyword that does not look at the element's text
RawKeywordNoText(element, rnd) ==
    IF element.ariaLabel # <<>> THEN element.ariaLabel
    ELSE IF element.placeholder # <<>> THEN element.placeholder
    ELSE IF element.alt # <<>> THEN element.alt
    ELSE IF element.name # <<>> THEN element.name
    ELSE IF element.id # <<>> THEN element.id
    ELSE element.type \o <<"_">> \o rnd

\* the keyword before its clean-up: the first non-empty attribute in the order
\* of preference, else the type and a random string
RawKeyword(element, rnd) ==
    IF element.ariaLabel # <<>> THEN element.ariaLabel
    ELSE IF element.placeholder # <<>> THEN element.placeholder
    ELSE IF element.alt # <<>> THEN element.alt
    ELSE IF element.name # <<>> THEN element.name
    ELSE IF element.id # <<>> THEN element.id
    ELSE IF element.text # <<>> /\ Trim(element.text) # <<>> THEN Trim(element.text)
    ELSE element.type \o <<"_">> \o rnd

\* the first action word the lower-cased keyword includes, from the i-th word on
RECURSIVE ActionHintFrom(_, _)
ActionHintFrom(lowered, i) ==
    IF i > Len(ActionWords) THEN <<>>
    ELSE IF Includes(lowered, ActionWords[i]) THEN ActionWords[i]
    ELSE ActionHintFrom(lowered, i + 1)

ActionHint(keyword) == With(LowerSeq(keyword), LAMBDA lowered : ActionHintFrom(lowered, 1))

\* the type with the action hint in front and the context hint behind
HintedType(type, actionHint, contextHint) ==
    (IF actionHint # <<>> THEN actionHint \o <<"_">> ELSE <<>>)
    \o type
    \o (IF contextHint # <<>> THEN <<"_", "i", "n", "_">> \o contextHint ELSE <<>>)

\* keyword.toLowerCase().replace(/[^a-z0-9]/g, '_').substring(0, 50)
CleanKeyword(keyword) == Truncate(ReplaceNonLowerAlnum(LowerSeq(keyword)), KeywordMax)

\* the object generateElementKeyword returns for the raw keyword and the type
KeywordRecord(keyword, type) ==
    [primary |-> keyword, type |-> type,
     fullKeyword |-> Truncate(type \o <<"_">> \o keyword, FullKeywordMax)]

\* generateElementKeyword(element), with rnd the string Math.random gives
generateElementKeyword(element, rnd) ==
    With(RawKeyword(element, rnd), LAMBDA keyword :
        With(<<CleanKeyword(keyword),
               HintedType(element.type, ActionHint(keyword), element.contextHint)>>,
             LAMBDA p : KeywordRecord(p[1], p[2])))

\* a text longer than a keyword may be
LongText == [i \in 1..(KeywordMax + 1) |-> "a"]

\* element descriptions: each attribute absent (empty) or present
Elements ==
    [type : {<<>>, <<"b", "t", "n">>},
     ariaLabel : {<<>>, <<"A", "d", "d">>},
     placeholder : {<<>>, <<"q">>},
     alt : {<<>>, <<"x">>},
     name : {<<>>, <<"e", "-", "2">>},
     id : {<<>>, <<"b", "1">>},
     text : {<<>>, <<" ">>, <<" ", "S", "a", "v", "e", " ">>, LongText},
     contextHint : {<<>>, <<"n", "a", "v">>}]

\* an extension crawler and the element the calls to come describe
InitKw ==
    /\ impl = "extension"
    /\ site = SiteScenario
    /\ startUrl = Home
    /\ config \in {c \in Configs : c.maxDepth = MaxDepthBound /\ c.maxPages = MaxPagesBound
                                    /\ ~c.followExternalLinks /\ c.includeScreenshots}
    /\ args \in [op : {"generateElementKeyword"}, element : Elements]
    /\ result = [op |-> "generateElementKeyword", runs |-> <<>>]
    /\ Constructed

\* one call generateElementKeyword(element)
CallGenerateElementKeyword ==
    /\ args.op = "generateElementKeyword"
    /\ Len(result.runs) < MaxRuns
    /\ \E rnd \in RandomStrings :
         result' = [result EXCEPT
                       !.runs = Append(@, generateElementKeyword(args.element, rnd))]
    /\ UNCHANGED <<callFrame, visitedUrls, stats>>

NextKw == CallGenerateElementKeyword

SpecKw == InitKw /\ [][NextKw]_vars

\* ------------------------------------------------------------------ buttons of a page

\* In the extraction of a page's buttons text is a sequence of single
\* characters, as in generateElementKeyword.

\* number of buttons of the extracted page
MaxButtons == 2

\* a || b on strings
OrElse(a, b) == IF a # <<>> THEN a ELSE b

\* the alternatives of /(logout|log out|sign out|delete|remove)/i
DangerWords ==
    { <<"l", "o", "g", "o", "u", "t">>,
      <<"l", "o", "g", " ", "o", "u", "t">>,
      <<"s", "i", "g", "n", " ", "o", "u", "t">>,
      <<"d", "e", "l", "e", "t", "e">>,
      <<"r", "e", "m", "o", "v", "e">> }

\* (button.innerText || button.value || '').toLowerCase()
ButtonText(button) == LowerSeq(OrElse(button.innerText, button.value))

\* isSafeButton that is true for every button
IsSafeButtonAlways(button) == TRUE

\* !/(logout|log out|sign out|delete|remove)/i.test(buttonText)
IsSafeButton(button) ==
    With(ButtonText(button), LAMBDA buttonText :
        ~\E w \in DangerWords : Includes(buttonText, w))

\* the entry extractPageDataScript pushes to extractedButtons for one button
ExtractedButton(button) ==
    [type |-> <<"b", "u", "t", "t", "o", "n">>,
     text |-> OrElse(button.innerText, OrElse(button.value,
                  OrElse(button.id, <<"B", "u", "t", "t", "o", "n">>))),
     ariaLabel |-> button.ariaLabel,
     id |-> button.id,
     name |-> <<>>,
     isSafeButton |-> IsSafeButton(button),
     contextHint |-> button.parentId]

\* the loop of extractPageDataScript over the page's buttons
ExtractedButtons(buttons) == [i \in 1..Len(buttons) |-> ExtractedButton(buttons[i])]

\* the element processPageData hands to generateElementKeyword for a button
ButtonElement(button) ==
    [type |-> <<"b", "u", "t", "t", "o", "n">>, text |-> button.text,
     ariaLabel |-> button.ariaLabel, id |-> button.id, name |-> button.name,
     contextHint |-> button.contextHint, placeholder |-> <<>>, alt |-> <<>>]

\* the entry processPageData pushes to interactiveElements[urlKey].elements
RecordedButton(button, rnd) ==
    [type |-> <<"b", "u", "t", "t", "o", "n">>, text |-> button.text,
     ariaLabel |-> button.ariaLabel, id |-> button.id, name |-> button.name,
     isSafeButton |-> button.isSafeButton, contextHint |-> button.contextHint,
     keywords |-> generateElementKeyword(ButtonElement(button), rnd)]

\* the buttons a page may hold
DomButtons ==
    [innerText : {<<>>, <<"S", "a", "v", "e", " ", "C", "h", "a", "n", "g", "e", "s">>,
                  <<"D", "e", "l", "e", "t", "e", " ", "A", "c", "c", "o", "u", "n", "t">>,
                  <<"L", "o", "g", " ", "O", "u", "t">>},
     value : {<<>>, <<"R", "e", "m", "o", "v", "e">>},
     id : {<<>>, <<"d", "e", "l", "e", "t", "e">>},
     ariaLabel : {<<>>, <<"A", "d", "d">>},
     parentId : {<<"n", "a", "v">>}]

\* the button lists of pages with 1..MaxButtons buttons
ButtonLists == UNION {[1..n -> DomButtons] : n \in 1..MaxButtons}

\* an extension crawler that is about to extract and record the buttons of a
\* page
InitPass ==
    /\ impl = "extension"
    /\ site = SiteScenario
    /\ startUrl = Home
    /\ config \in {c \in Configs : c.maxDepth = MaxDepthBound /\ c.maxPages = MaxPagesBound
                                    /\ ~c.followExternalLinks /\ c.includeScreenshots}
    /\ args \in [op : {"buttons"}, buttons : ButtonLists]
    /\ result = [op |-> "buttons", step |-> "page",
                 extractedButtons |-> <<>>, elements |-> <<>>]
    /\ Constructed

\* extractPageDataScript runs in the page: the loop over its buttons
ExtractPageData ==
    /\ args.op = "buttons"
    /\ result.step = "page"
    /\ result' = [result EXCEPT !.step = "extracted",
                                !.extractedButtons = ExtractedButtons(args.buttons)]
    /\ UNCHANGED <<callFrame, visitedUrls, stats>>

\* processPageData records the extracted buttons, each with its keywords
RecordButtons ==
    /\ args.op = "buttons"
    /\ result.step = "extracted"
    /\ \E rnds \in [1..Len(result.extractedButtons) -> RandomStrings] :
         result' = [result EXCEPT
                       !.step = "recorded",
                       !.elements = [i \in 1..Len(result.extractedButtons) |->
                                        RecordedButton(result.extractedButtons[i], rnds[i])]]
    /\ stats' = [stats EXCEPT !.elementsFound = @ + Len(result.extractedButtons)]
    /\ UNCHANGED <<callFrame, visitedUrls>>

NextPass == ExtractPageData \/ RecordButtons

SpecPass == InitPass /\ [][NextPass]_vars

\* ------------------------------------------------------------------ export and import of the graph

\* number of edges of the graphs that are exported
MaxEdges == 2

\* what building, saving and loading the graph leave alone
storeFrame == <<impl, site, startUrl, config, args, visitedUrls, urlQueue,
                crawlInProgress, tabIds, pending, openTabs, nextTab, pc, cur,
                progress, stopResult, hist>>

\* the members of a JSON object, key and value, one after the other
RECURSIVE Members(_)
RECURSIVE MembersFrom(_, _)
Members(f) == IF DOMAIN f = {} THEN <<>> ELSE MembersFrom(f, CHOOSE k \in DOMAIN f : TRUE)

MembersFrom(f, k) == << <<k, f[k]>> >> \o Members([i \in DOMAIN f \ {k} |-> f[i]])

\* the index of the last member with key k
LastMember(m, k) == CHOOSE i \in DOMAIN m : m[i][1] = k /\ \A j \in DOMAIN m : m[j][1] = k => j <= i

\* the object a list of members is parsed to: of two members with one key the
\* later wins
FromMembers(m) == [k \in {m[i][1] : i \in DOMAIN m} |-> m[LastMember(m, k)][2]]

\* Object.keys(this.siteGraph.nodes).length
NodeCount(graph) == Cardinality(DOMAIN graph.nodes)

\* this.siteGraph.edges.length
EdgeCount(graph) == Len(graph.edges)

\* graphData with edgeCount taken from the nodes
GraphDataEdgesFromNodes(graph, st) ==
    [graph |-> graph,
     stats |-> [nodeCount |-> NodeCount(graph), edgeCount |-> NodeCount(graph)] @@ st,
     config |-> config]

\* graphData of saveGraph, fullGraph of exportGraph: the graph, the stats with
\* nodeCount and edgeCount added, the configuration
GraphData(graph, st) ==
    [graph |-> graph,
     stats |-> [nodeCount |-> NodeCount(graph), edgeCount |-> EdgeCount(graph)] @@ st,
     config |-> config]

\* the JSON text written for graphData
ToJson(graphData) ==
    [graph |-> [nodes |-> Members(graphData.graph.nodes), edges |-> graphData.graph.edges],
     stats |-> graphData.stats, config |-> graphData.config]

\* what parsing the JSON text gives
FromJson(json) ==
    [graph |-> [nodes |-> FromMembers(json.graph.nodes), edges |-> json.graph.edges],
     stats |-> json.stats, config |-> json.config]

Nothing == [has |-> FALSE]

\* a crawler, an empty store, and nothing exported or loaded yet
InitStore ==
    /\ impl \in {"puppeteer", "extension"}
    /\ site = SiteScenario
    /\ startUrl = Home
    /\ config \in {c \in Configs : c.maxDepth = MaxDepthBound /\ c.maxPages = MaxPagesBound
                                    /\ ~c.followExternalLinks /\ c.includeScreenshots}
    /\ args = [op |-> "store"]
    /\ result = [op |-> "store", stored |-> Nothing, exported |-> Nothing, loaded |-> Nothing]
    /\ Constructed

\* a call addNode(url, metadata)
CallAddNode ==
    /\ args.op = "store"
    /\ \E url \in {Home, AboutUrl, DocsUrl} :
         siteGraph' = addNode(siteGraph, url, [title |-> <<"Page">>, fields |-> MetadataFields])
    /\ UNCHANGED <<storeFrame, faults, stats, result>>

\* a call addEdge(fromUrl, toUrl, {type: 'link'})
CallAddEdge ==
    /\ args.op = "store"
    /\ Len(siteGraph.edges) < MaxEdges
    /\ \E toUrl \in {Home, AboutUrl, DocsUrl} :
         siteGraph' = addEdge(siteGraph, Home, toUrl, "link")
    /\ UNCHANGED <<storeFrame, faults, stats, result>>

\* saveGraph() with its chrome.storage.local.set, exportGraph() with its
\* fs.writeFile: the data is written, or the write fails
SaveGraph ==
    /\ args.op = "store"
    /\ \E written \in BOOLEAN :
         /\ written \/ faults < MaxFaults
         /\ faults' = IF written THEN faults ELSE faults + 1
         /\ result' = [result EXCEPT
                          !.stored = IF written
                                     THEN [has |-> TRUE, json |-> ToJson(GraphData(siteGraph, stats))]
                                     ELSE @,
                          !.exported = IF written
                                       THEN [has |-> TRUE, graph |-> siteGraph]
                                       ELSE @]
         /\ stats' = IF ~written /\ impl = "puppeteer"
                     THEN [stats EXCEPT !.errors = @ \o <<Err("export", startUrl)>>]
                     ELSE stats
    /\ result.loaded = Nothing
    /\ UNCHANGED <<storeFrame, siteGraph>>

\* loadGraph(): resolves with what is stored, rejects if nothing is
LoadGraph ==
    /\ args.op = "store"
    /\ result.loaded = Nothing
    /\ result' = [result EXCEPT
                     !.loaded = IF result.stored.has
                                THEN [has |-> TRUE, rejected |-> FALSE,
                                      data |-> FromJson(result.stored.json)]
                                ELSE [has |-> TRUE, rejected |-> TRUE]]
    /\ UNCHANGED <<storeFrame, faults, siteGraph, stats>>

NextStore == CallAddNode \/ CallAddEdge \/ SaveGraph \/ LoadGraph

SpecStore == InitStore /\ [][NextStore]_vars

\* ------------------------------------------------------------------ startExtensionCrawl

\* what startCrawl() returns when it has started the crawl: return true
StartCrawlReturn == [kind |-> "boolean", value |-> TRUE]

\* v.then(() => crawler).catch(...) as startExtensionCrawl evaluates it: a
\* promise gives a promise that resolves to the crawler; any other value has no
\* then, and calling it throws a TypeError out of startExtensionCrawl
ThenCrawler(v) ==
    IF v.kind = "promise"
    THEN [op |-> "startExtensionCrawl", returned |-> v, outcome |-> "resolved", handle |-> TRUE]
    ELSE [op |-> "startExtensionCrawl", returned |-> v, outcome |-> "threw", handle |-> FALSE]

\* the page that is about to call startExtensionCrawl
InitStart ==
    /\ impl = "extension"
    /\ site \in Sites
    /\ startUrl = Home
    /\ config \in Configs
    /\ args = [op |-> "startExtensionCrawl"]
    /\ result = NoCall
    /\ Constructed

\* startExtensionCrawl(startUrl, options, progressCallback): a crawler is
\* constructed, startCrawl runs, and then() is called on what it returned
StartExtensionCrawl ==
    /\ impl = "extension" /\ pc = "idle" /\ ~crawlInProgress
    /\ args.op = "startExtensionCrawl" /\ result = NoCall
    /\ Install(processNextUrl(
           [Now EXCEPT !.crawlInProgress = TRUE,
                       !.pc = "running",
                       !.stats.startTime = Stamp,
                       !.urlQueue = <<[url |-> startUrl, depth |-> 0]>>]))
    /\ result' = ThenCrawler(StartCrawlReturn)
    /\ UNCHANGED <<impl, site, startUrl, config, args, cur, stopResult, faults>>

NextStart == StartExtensionCrawl \/ Callbacks

SpecStart == InitStart /\ [][NextStart]_vars

\* ------------------------------------------------------------------ a page at the id of a button

\* the page whose path gives the node id that the start page's button gets:
\* 'home' + '_button_' + 'save'
ClashUrl == <<"https:", "//", "example.com", "/", "home", "/", "button", "/", "save">>

\* the start page has the button Save and links to /home/button/save, which
\* links on to /docs
SiteClash ==
    Home :> [title |-> <<"Home">>,
             anchors |-> << <<"/", "home", "/", "button", "/", "save">> >>,
             buttons |-> << <<"Save">> >>, elements |-> <<>>]
    @@ ClashUrl :> [title |-> <<"Saved">>, anchors |-> << <<"/", "docs">> >>,
                    buttons |-> <<>>, elements |-> <<>>]
    @@ DocsUrl :> [title |-> <<"Docs">>, anchors |-> <<>>,
                   buttons |-> <<>>, elements |-> <<>>]

\* a crawler constructed for the start URL of that site
InitClash ==
    /\ impl \in {"puppeteer", "extension"}
    /\ site = SiteClash
    /\ startUrl = Home
    /\ config \in Configs
    /\ impl = "puppeteer" => config.includeScreenshots
    /\ args = NoCall
    /\ result = NoCall
    /\ Constructed

SpecClash == InitClash /\ [][Next]_vars

\* ------------------------------------------------------------------ start URLs of other schemes

\* a start URL that new URL() parses and whose scheme is not http or https
MailStart == <<"mailto:", "a">>

\* a crawler constructed for an http start URL or for one of another scheme:
\* the constructor only reads new URL(startUrl).hostname
InitScheme ==
    /\ impl \in {"puppeteer", "extension"}
    /\ site = SiteScenario
    /\ startUrl \in {Home, MailStart}
    /\ config \in Configs
    /\ impl = "puppeteer" => config.includeScreenshots
    /\ args = NoCall
    /\ result = NoCall
    /\ Constructed

SpecScheme == InitScheme /\ [][Next]_vars

\* ------------------------------------------------------------------ the element index

\* number of page visits whose elements are recorded
MaxVisits == 3

\* what a visit pushes for a page: its interactive elements, then its buttons
\* (the keywords each entry gets are those of generateElementKeyword)
PageEntries(page) == page.elements \o AsButtons(page.buttons)

\* this.interactiveElements[urlKey].elements with the entries pushed to it;
\* the key's record is created when it is missing
PushEntries(index, urlKey, entries) ==
    IF urlKey \in DOMAIN index
    THEN [index EXCEPT ![urlKey] = @ \o entries]
    ELSE index @@ (urlKey :> entries)

\* what chrome.storage.local may hold under elementStorageKey when the crawler
\* is constructed: nothing, or the index an earlier crawl saved
StoredIndexes ==
    {Nothing,
     [has |-> TRUE, value |-> <<>>],
     [has |-> TRUE, value |-> (<<"home">> :> AsButtons(<< <<"delete">> >>))],
     [has |-> TRUE, value |-> (<<"team">> :> AsButtons(<< <<"ok">> >>))]}

\* a crawler just constructed: interactiveElements = {} and the
\* chrome.storage.local.get of loadStoredElements under way.  collected is
\* what this crawl's visits have extracted, which only the claims read.
InitIndex ==
    /\ impl = "extension"
    /\ site = SiteDup
    /\ startUrl = Home
    /\ config \in {c \in Configs : c.maxDepth = MaxDepthBound /\ c.maxPages = MaxPagesBound
                                    /\ ~c.followExternalLinks /\ c.includeScreenshots}
    /\ args \in [op : {"index"}, stored : StoredIndexes]
    /\ result = [op |-> "index", interactiveElements |-> <<>>, loading |-> TRUE,
                 storage |-> args.stored, visits |-> 0, collected |-> <<>>]
    /\ Constructed

\* the callback of chrome.storage.local.get in loadStoredElements, with what
\* the storage held when the constructor asked
StoredElementsLoaded ==
    /\ args.op = "index"
    /\ result.loading
    /\ result' = [result EXCEPT
                     !.loading = FALSE,
                     !.interactiveElements = IF args.stored.has THEN args.stored.value ELSE @]
    /\ UNCHANGED <<callFrame, visitedUrls, stats>>

\* the part of processPageData that records a visited page's elements and
\* buttons and saves the index
RecordElements ==
    /\ args.op = "index"
    /\ result.visits < MaxVisits
    /\ \E url \in DOMAIN site :
         /\ result' = [result EXCEPT
                !.visits = @ + 1,
                !.interactiveElements =
                    IF PageEntries(site[url]) = <<>> THEN @
                    ELSE PushEntries(@, getNodeId(url), PageEntries(site[url])),
                !.storage =
                    IF PageEntries(site[url]) = <<>> THEN @
                    ELSE [has |-> TRUE,
                          value |-> PushEntries(result.interactiveElements, getNodeId(url),
                                                PageEntries(site[url]))],
                !.collected =
                    IF PageEntries(site[url]) = <<>> THEN @
                    ELSE PushEntries(@, getNodeId(url), PageEntries(site[url]))]
         /\ stats' = [stats EXCEPT !.elementsFound = @ + Len(PageEntries(site[url]))]
    /\ UNCHANGED <<callFrame, visitedUrls>>

NextIndex == StoredElementsLoaded \/ RecordElements

SpecIndex == InitIndex /\ [][NextIndex]_vars

\* ------------------------------------------------------------------ navigateWithRetry

\* config.retries of the command-line crawler
DefaultRetries == 3

\* the command-line crawler about to call navigateWithRetry(page, url,
\* config.retries) for a URL; attempts counts the calls of page.goto
InitNav ==
    /\ impl = "puppeteer"
    /\ site = SiteScenario
    /\ startUrl = Home
    /\ config \in {c \in Configs : c.maxDepth = MaxDepthBound /\ c.maxPages = MaxPagesBound
                                    /\ ~c.followExternalLinks /\ c.includeScreenshots}
    /\ args \in [op : {"navigate"}, url : {Home, AboutUrl, DocsUrl, OtherUrl},
                 retries : 0..DefaultRetries]
    /\ result = [op |-> "navigate", status |-> "goto", retries |-> args.retries,
                 attempts |-> 0]
    /\ Constructed

\* page.goto(url, {timeout}) resolves: return true
GotoResolved ==
    /\ args.op = "navigate" /\ result.status = "goto"
    /\ result' = [result EXCEPT !.status = "true", !.attempts = @ + 1]
    /\ UNCHANGED <<callFrame, visitedUrls, stats>>

\* page.goto times out or fails: with retries <= 0 return false, else wait 2 s
GotoRejected ==
    /\ args.op = "navigate" /\ result.status = "goto"
    /\ result' = [result EXCEPT
                     !.status = IF result.retries <= 0 THEN "false" ELSE "wait",
                     !.attempts = @ + 1]
    /\ UNCHANGED <<callFrame, visitedUrls, stats>>

\* after the 2 s: return navigateWithRetry(page, url, retries - 1)
RetryNavigation ==
    /\ args.op = "navigate" /\ result.status = "wait"
    /\ result' = [result EXCEPT !.status = "goto", !.retries = @ - 1]
    /\ UNCHANGED <<callFrame, visitedUrls, stats>>

NextNav == GotoResolved \/ GotoRejected \/ RetryNavigation

SpecNav == InitNav /\ [][NextNav]_vars

\* ------------------------------------------------------------------ the command-line crawler

\* /\.(pdf|jpg|jpeg|png|gif|doc|docx|zip)$/i
CorpFileExtensions == {"pdf", "jpg", "jpeg", "png", "gif", "doc", "docx", "zip"}

\* /logout|signout|delete|remove/i
CorpDangerTokens == {"logout", "signout", "delete", "remove"}

\* a.href: the anchor's href resolved against the page's URL (the attribute
\* itself when it does not resolve)
CorpHref(href, url) ==
    IF ParseWithBase(href, url).ok THEN Serialize(ParseWithBase(href, url)) ELSE href

\* the filter of extractLinks on one a.href, domain being the page's host name
CorpValidLink(href, domain) ==
    /\ ParseAbsolute(href).ok
    /\ Hostname(ParseAbsolute(href)) = domain
    /\ ~\E ext \in CorpFileExtensions : EndsWith(LowerSeq(href), <<".", ext>>)
    /\ href[1] # "mailto:"
    /\ \A i \in 1..Len(href) : ToLower(href[i]) \notin CorpDangerTokens

\* [...new Set(validLinks)]: the first occurrence of every link, in order
RECURSIVE CorpUnique(_, _)
CorpUnique(links, i) ==
    IF i > Len(links) THEN <<>>
    ELSE IF \E j \in 1..(i - 1) : links[j] = links[i] THEN CorpUnique(links, i + 1)
    ELSE <<links[i]>> \o CorpUnique(links, i + 1)

\* the a.href of every a[href] of the page served for url
CorpAnchors(url) ==
    With(SelectSeq(PageAt(site, BeforeHash(url)).anchors, LAMBDA h : h # <<>>),
         LAMBDA hrefs : [i \in 1..Len(hrefs) |-> CorpHref(hrefs[i], url)])

\* extractLinks(page, extractDomain(url))
CorpExtractLinks(url) ==
    CorpUnique(SelectSeq(CorpAnchors(url),
                         LAMBDA h : CorpValidLink(h, Hostname(ParseAbsolute(url)))), 1)

\* crawlUrl(page, url, depth) up to its loop over the links: st is [visited,
\* stack, order], navigated what navigateWithRetry returns; the call's frame
\* is pushed when it goes on to follow links
CorpCrawlUrl(st, url, depth, navigated) ==
    IF url \in st.visited THEN st
    ELSE IF depth > args.depth \/ ~navigated
         THEN [st EXCEPT !.visited = @ \cup {url}]
    ELSE [st EXCEPT
             !.visited = @ \cup {url},
             !.order = Append(@, [url |-> url, depth |-> depth]),
             !.stack = IF depth < args.depth
                       THEN Append(@, [url |-> url, depth |-> depth,
                                       links |-> CorpExtractLinks(url)])
                       ELSE @]

\* the command-line crawler about to crawl config.url with config.depth
InitCorp ==
    /\ impl = "puppeteer"
    /\ site \in Sites \cup {SiteClash}
    /\ startUrl = Home
    /\ config \in {c \in Configs : c.maxDepth = MaxDepthBound /\ c.maxPages = MaxPagesBound
                                    /\ ~c.followExternalLinks /\ c.includeScreenshots}
    /\ args \in [op : {"crawl"}, depth : 0..MaxDepthBound]
    /\ result = [op |-> "crawl", status |-> "start", visited |-> {}, stack |-> <<>>,
                 order |-> <<>>]
    /\ Constructed

\* crawl(): await crawlUrl(page, config.url, 0)
CorpCrawlStart ==
    /\ args.op = "crawl" /\ result.status = "start"
    /\ \E navigated \in BOOLEAN :
         result' = [CorpCrawlUrl(result, startUrl, 0, navigated) EXCEPT !.status = "running"]
    /\ UNCHANGED <<callFrame, visitedUrls, stats>>

\* one turn of the loop over the links in the innermost crawlUrl: a link that
\* is not visited is crawled at depth + 1 before the loop goes on
CorpFollowLink ==
    /\ args.op = "crawl" /\ result.status = "running"
    /\ Len(result.stack) > 0
    /\ Len(result.stack[Len(result.stack)].links) > 0
    /\ \E navigated \in BOOLEAN :
         result' = CorpCrawlUrl(
             [result EXCEPT !.stack[Len(result.stack)].links = Tail(@)],
             result.stack[Len(result.stack)].links[1],
             result.stack[Len(result.stack)].depth + 1,
             navigated)
    /\ UNCHANGED <<callFrame, visitedUrls, stats>>

\* the innermost crawlUrl has followed all its links and returns
CorpReturn ==
    /\ args.op = "crawl" /\ result.status = "running"
    /\ Len(result.stack) > 0
    /\ Len(result.stack[Len(result.stack)].links) = 0
    /\ result' = [result EXCEPT !.stack = SubSeq(@, 1, Len(@) - 1)]
    /\ UNCHANGED <<callFrame, visitedUrls, stats>>

\* crawl() after crawlUrl returned: the results are written
CorpSave ==
    /\ args.op = "crawl" /\ result.status = "running"
    /\ Len(result.stack) = 0
    /\ result' = [result EXCEPT !.status = "saved"]
    /\ UNCHANGED <<callFrame, visitedUrls, stats>>

NextCorp == CorpCrawlStart \/ CorpFollowLink \/ CorpReturn \/ CorpSave

SpecCorp == InitCorp /\ [][NextCorp]_vars

\* ------------------------------------------------------------------ a chain of pages

\* the start page links to /about only, /about to /docs only
SiteChain ==
    Home :> [title |-> <<"Home">>, anchors |-> << <<"/", "about">> >>,
             buttons |-> <<>>, elements |-> <<>>]
    @@ AboutUrl :> [title |-> <<"About">>, anchors |-> << <<"/", "docs">> >>,
                    buttons |-> <<>>, elements |-> <<>>]
    @@ DocsUrl :> [title |-> <<"Docs">>, anchors |-> <<>>,
                   buttons |-> <<>>, elements |-> <<>>]

\* a crawler constructed for the start URL of the chain, with room for more
\* pages than the chain has
InitChain ==
    /\ impl \in {"puppeteer", "extension"}
    /\ site = SiteChain
    /\ startUrl = Home
    /\ config \in [maxDepth : 0..MaxDepthBound, maxPages : {MaxPagesBound + 2},
                   maxLinksPerPage : {MaxLinksBound}, ignoreParams : {TRUE},
                   followExternalLinks : {FALSE}, includeScreenshots : BOOLEAN,
                   captureButtonInteractions : {TRUE}]
    /\ impl = "puppeteer" => config.includeScreenshots
    /\ args = NoCall
    /\ result = NoCall
    /\ Constructed

SpecChain == InitChain /\ [][Next]_vars

\* ------------------------------------------------------------------ addNode called twice

\* what the crawlers pass to addNode: the result of extractPageMetadata, and
\* the page data with isFormPage, hasModals and pageType added, whose url is
\* the address of the page
NodeMetadata(url) ==
    {[title |-> t, url |-> url, fields |-> f] :
         t \in {<<"Page">>, <<"Other">>}, f \in {MetadataFields, PageDataFields}}

\* a crawler whose graph is empty, about to add a node
InitAdd ==
    /\ impl \in {"puppeteer", "extension"}
    /\ site = SiteScenario
    /\ startUrl = Home
    /\ config \in Configs
    /\ impl = "puppeteer" => config.includeScreenshots
    /\ args = [op |-> "addNode", calls |-> 0]
    /\ result = [op |-> "addNode"]
    /\ Constructed

\* the first call addNode(url, metadata); the graph it leaves is kept
CallAddNodeOnce ==
    /\ args.op = "addNode" /\ args.calls = 0
    /\ \E url \in {Home, AboutUrl, DocsUrl} :
         \E metadata \in NodeMetadata(url) :
            /\ siteGraph' = addNode(siteGraph, url, metadata)
            /\ args' = [op |-> "addNode", calls |-> 1, url |-> url, metadata |-> metadata]
            /\ result' = [op |-> "addNode", once |-> addNode(siteGraph, url, metadata)]
    /\ UNCHANGED <<impl, site, startUrl, config, visitedUrls, urlQueue, stats,
                   crawlInProgress, tabIds, pending, openTabs, nextTab, pc, cur,
                   progress, stopResult, faults, hist>>

\* the same call made again
CallAddNodeAgain ==
    /\ args.op = "addNode" /\ args.calls = 1
    /\ siteGraph' = addNode(siteGraph, args.url, args.metadata)
    /\ args' = [args EXCEPT !.calls = 2]
    /\ UNCHANGED <<impl, site, startUrl, config, result, visitedUrls, urlQueue, stats,
                   crawlInProgress, tabIds, pending, openTabs, nextTab, pc, cur,
                   progress, stopResult, faults, hist>>

NextAdd == CallAddNodeOnce \/ CallAddNodeAgain

SpecAdd == InitAdd /\ [][NextAdd]_vars

\* ------------------------------------------------------------------ startCrawl during a crawl

\* how many calls of startCrawl a behaviour holds
MaxCalls == 2

\* the progress callbacks a caller may pass
ProgressCallbacks == {"first", "second"}

\* a new crawler: progressCallback is null and startCrawl was never called
InitAgain ==
    /\ impl = "extension"
    /\ site = SiteScenario
    /\ startUrl = Home
    /\ config \in Configs
    /\ args = [op |-> "startCrawl", progressCallback |-> Null]
    /\ result = [op |-> "startCrawl", calls |-> 0, outcome |-> "none"]
    /\ Constructed

\* startCrawl without the test of crawlInProgress
CallStartCrawlRestarting ==
    /\ impl = "extension" /\ pc \in {"idle", "running"}
    /\ result.op = "startCrawl" /\ result.calls < MaxCalls
    /\ \E progressCallback \in ProgressCallbacks :
         /\ Install(processNextUrl(
                [Now EXCEPT !.crawlInProgress = TRUE,
                            !.pc = "running",
                            !.stats.startTime = Stamp,
                            !.urlQueue = <<[url |-> startUrl, depth |-> 0]>>]))
         /\ args' = [args EXCEPT !.progressCallback = progressCallback]
         /\ result' = [result EXCEPT !.calls = @ + 1, !.outcome = "returned true"]
    /\ UNCHANGED <<impl, site, startUrl, config, cur, stopResult, faults>>

\* startCrawl(progressCallback), called on a new crawler or during its crawl:
\* during a crawl it throws before it touches anything
CallStartCrawl ==
    /\ impl = "extension" /\ pc \in {"idle", "running"}
    /\ result.op = "startCrawl" /\ result.calls < MaxCalls
    /\ \E progressCallback \in ProgressCallbacks :
         IF crawlInProgress
         THEN /\ result' = [result EXCEPT !.calls = @ + 1,
                                          !.outcome = "Crawl already in progress"]
              /\ UNCHANGED <<args, siteGraph, visitedUrls, urlQueue, stats,
                             crawlInProgress, tabIds, pending, openTabs, nextTab, pc,
                             progress, hist>>
         ELSE /\ Install(processNextUrl(
                     [Now EXCEPT !.crawlInProgress = TRUE,
                                 !.pc = "running",
                                 !.stats.startTime = Stamp,
                                 !.urlQueue = <<[url |-> startUrl, depth |-> 0]>>]))
              /\ args' = [args EXCEPT !.progressCallback = progressCallback]
              /\ result' = [result EXCEPT !.calls = @ + 1, !.outcome = "returned true"]
    /\ UNCHANGED <<impl, site, startUrl, config, cur, stopResult, faults>>

NextAgain == CallStartCrawl \/ Callbacks

SpecAgain == InitAgain /\ [][NextAgain]_vars

\* ------------------------------------------------------------------ properties

C2_QueueWithinDepth ==
    \A i \in 1..Len(urlQueue) : urlQueue[i].depth <= config.maxDepth

Started == pc # "idle"

\* the crawl has ended, Completed (crawl() returned, or finishCrawl ran) or
\* Stopped, and its results are final
Terminated == pc \in {"done", "completed", "stopped"} /\ stats.endTime # Null

\* crawl() rejected because the browser could not be launched or the export
\* not be written: a failure of the whole run, not of a page
Aborted == pc = "failed" /\ Len(stats.errors) > 0

\* C3: under fair scheduling every started crawl that is not aborted as a
\* whole eventually terminates, Completed or Stopped, whatever pages fail, and
\* then the graph and the error list are there with the end time set.
C3_Terminates == Started ~> (Terminated \/ Aborted)

\* a crawl that completed although pages of it failed
C3_Witness ==
    /\ pc \in {"done", "completed"}
    /\ stats.endTime # Null
    /\ Len(stats.errors) > 0
    /\ stats.pagesVisited > 0

C5_StopFrame ==
    [][stopResult' # stopResult =>
          /\ siteGraph' = siteGraph
          /\ stats'.endTime # Null
          /\ stats' = [stats EXCEPT !.endTime = stats'.endTime]
          /\ stopResult' = [success |-> TRUE,
                            pagesVisited |-> stats'.pagesVisited,
                            elementsFound |-> stats'.elementsFound,
                            errors |-> Len(stats'.errors)]
          /\ visitedUrls' = visitedUrls
          /\ urlQueue' = urlQueue]_vars

\* a crawl stopped after it had collected nodes and edges
C5_Witness ==
    /\ stopResult.success
    /\ pc = "stopped"
    /\ stopResult.pagesVisited > 0
    /\ Len(siteGraph.edges) > 0

\* the entries of stats.errors appended during visit v
ErrorsOfVisit(v) == {i \in 1..Len(stats.errors) : stats.errors[i].visit = v}

ScenarioCrawl ==
    /\ site = SiteScenario
    /\ config.maxDepth = 1
    /\ ~config.followExternalLinks
    /\ config.maxPages >= 2

\* the crawl completed, was not stopped, and no page of it failed
CleanEnd ==
    /\ pc \in {"done", "completed"}
    /\ stats.errors = <<>>
    /\ ~stopResult.success

LinkEdges == SelectSeq(siteGraph.edges, LAMBDA e : e.type = "link")

SameButFragment(a, b) ==
    IF config.ignoreParams
    THEN BeforeQuery(BeforeHash(a)) = BeforeQuery(BeforeHash(b))
    ELSE BeforeHash(a) = BeforeHash(b)

\* C8: for two URLs that differ only in the fragment (and in the query when
\* ignoreParams is set) normalizeUrl returns the same string, and getNodeId,
\* given URLs new URL() accepts, returns the same node id.
C8_FragmentInsensitive ==
    args.op = "url" /\ SameButFragment(args.a, args.b) =>
        /\ result.op = "normalizeUrl" => result.a = result.b
        /\ result.op = "getNodeId" /\ ParseAbsolute(args.a).ok =>
               ~result.threw /\ result.a = result.b

\* normalizeUrl was called on two different URLs, one with a query and a
\* fragment and one without, and returned a URL
C8_Witness ==
    /\ args.op = "url" /\ result.op = "normalizeUrl"
    /\ args.a # args.b /\ SameButFragment(args.a, args.b)
    /\ QueryOf(BeforeHash(args.a)) # NoPart /\ FragmentOf(args.a) # NoPart
    /\ result.a # NullStr

\* the URL parses and its host is not the host of the start URL
HostDiffers(url) ==
    ParseAbsolute(url).ok /\ Hostname(ParseAbsolute(url)) # baseHostname

\* C9 as stated: shouldCrawl is false for every URL of another host when
\* followExternalLinks is false, and true for every http(s) URL of another
\* host when followExternalLinks is true.
C9_ExternalAsStated ==
    args.op = "url" /\ result.op = "shouldCrawl" /\ HostDiffers(args.a) =>
        /\ ~config.followExternalLinks => result.a = FALSE
        /\ config.followExternalLinks /\ ProtocolStartsWithHttp(ParseAbsolute(args.a))
               => result.a = TRUE

\* C9 amended: shouldCrawl is false for every URL of another host when
\* followExternalLinks is false; when followExternalLinks is true it is true
\* for every http(s) URL of another host that has not been visited and whose
\* path does not end in one of the file extensions.
C9_ExternalAmended ==
    args.op = "url" /\ result.op = "shouldCrawl" /\ HostDiffers(args.a) =>
        /\ ~config.followExternalLinks => result.a = FALSE
        /\ (/\ config.followExternalLinks
            /\ ProtocolStartsWithHttp(ParseAbsolute(args.a))
            /\ args.a \notin visitedUrls
            /\ ~HasFileExtension(ParseAbsolute(args.a)))
               => result.a = TRUE

\* shouldCrawl accepted a URL of another host
C9_Witness ==
    /\ args.op = "url" /\ result.op = "shouldCrawl"
    /\ HostDiffers(args.a)
    /\ config.followExternalLinks
    /\ result.a = TRUE

\* every two runs made so far returned the same primary keyword and the same
\* fullKeyword
RunsAgree ==
    \A i, j \in 1..Len(result.runs) :
        /\ result.runs[i].primary = result.runs[j].primary
        /\ result.runs[i].fullKeyword = result.runs[j].fullKeyword

\* the element has a non-empty aria-label, placeholder, alt, name or id, or a
\* text that is not only white space
HasLabel(element) ==
    \/ element.ariaLabel # <<>> \/ element.placeholder # <<>> \/ element.alt # <<>>
    \/ element.name # <<>> \/ element.id # <<>> \/ Trim(element.text) # <<>>

\* C10 as stated: for every element, also one whose attributes are all empty,
\* two runs of generateElementKeyword return the same primary keyword and the
\* same fullKeyword.
C10_DeterministicAsStated ==
    args.op = "generateElementKeyword" => RunsAgree

\* C10 amended: for every element that has a non-empty aria-label, placeholder,
\* alt, name or id or a text that is not blank, two runs of
\* generateElementKeyword return the same primary keyword and the same
\* fullKeyword; an element without any of them gets a keyword made of its type
\* and a random string.
C10_DeterministicAmended ==
    args.op = "generateElementKeyword" =>
        /\ HasLabel(args.element) => RunsAgree
        /\ ~HasLabel(args.element) =>
               \A i \in 1..Len(result.runs) :
                   \E rnd \in RandomStrings :
                       result.runs[i].primary = args.element.type \o <<"_">> \o rnd

\* two runs on an element whose only label is its text
C10_Witness ==
    /\ args.op = "generateElementKeyword"
    /\ Len(result.runs) = 2
    /\ args.element.ariaLabel = <<>> /\ args.element.placeholder = <<>>
    /\ args.element.alt = <<>> /\ args.element.name = <<>> /\ args.element.id = <<>>
    /\ result.runs[1].primary = <<"s", "a", "v", "e">>
    /\ result.runs[1].type = <<"s", "a", "v", "e", "_", "b", "t", "n">>

C12_CountsRoundTrip ==
    args.op = "store" /\ result.loaded.has /\ ~result.loaded.rejected =>
        /\ result.loaded.data.stats.nodeCount = NodeCount(result.loaded.data.graph)
        /\ result.loaded.data.stats.edgeCount = EdgeCount(result.loaded.data.graph)
        /\ NodeCount(result.loaded.data.graph) = NodeCount(result.exported.graph)
        /\ EdgeCount(result.loaded.data.graph) = EdgeCount(result.exported.graph)

\* a graph of two nodes and one edge was exported, a node was added to the
\* crawler's graph afterwards, and the exported graph was loaded
C12_Witness ==
    /\ args.op = "store" /\ result.loaded.has /\ ~result.loaded.rejected
    /\ NodeCount(result.loaded.data.graph) = 2
    /\ EdgeCount(result.loaded.data.graph) = 1
    /\ NodeCount(siteGraph) = 3

\* the entries of stats.errors
LoggedErrors == {stats.errors[i] : i \in DOMAIN stats.errors}

\* the id is 'unknown_' and a random token
IsUnknownId(id) == \E r \in RandomTokens : id = <<"unknown", "_", r>>

\* C13: normalizeUrl returns a normalized URL, or null with an entry appended
\* to stats.errors; getNodeId returns the id derived from the path, or an
\* 'unknown_' id with an entry appended to stats.errors; neither throws.
C13_FailuresAreValues ==
    args.op = "url" =>
        /\ result.op = "normalizeUrl" =>
               /\ ~result.threw
               /\ result.a = NullStr => Err("normalize", args.a) \in LoggedErrors
        /\ result.op = "getNodeId" =>
               /\ ~result.threw
               /\ \/ ParseAbsolute(args.a).ok /\ result.a = PathId(args.a)
                  \/ IsUnknownId(result.a) /\ Err("id", args.a) \in LoggedErrors

\* C14: a call of shouldCrawl leaves the visited set, the queue, the graph and
\* the stats, counters and error list, as they were, for malformed URLs too.
C14_ShouldCrawlPure ==
    [][result.op = "none" /\ result'.op = "shouldCrawl" =>
          /\ visitedUrls' = visitedUrls
          /\ urlQueue' = urlQueue
          /\ siteGraph' = siteGraph
          /\ stats' = stats]_vars

\* C15: when startCrawl has started the crawl, startExtensionCrawl gives a
\* promise that resolves to the crawler, the handle for stopCrawl, and does not
\* fail.
C15_StartResolves ==
    args.op = "startExtensionCrawl" /\ result.op = "startExtensionCrawl"
        /\ result.returned.value = TRUE /\ pc # "idle" =>
            result.outcome = "resolved" /\ result.handle

\* the progress calls that carry complete = true
CompleteCalls == {i \in DOMAIN progress : progress[i].complete}

\* the progress calls made after a page
PageCalls == SelectSeq(progress, LAMBDA c : ~c.complete)

\* C16: the observer is called once after every processed page, with the
\* cumulative counters; the call with complete = true is made at most once, a
\* completed crawl has made it, and no progress call follows it.
C16_ProgressCalls ==
    impl = "extension" =>
        /\ Len(PageCalls) = Len(hist.visits)
        /\ \A k \in DOMAIN PageCalls : PageCalls[k].pagesVisited = k
        /\ Cardinality(CompleteCalls) <= 1
        /\ pc = "completed" => Cardinality(CompleteCalls) = 1
        /\ \A i \in CompleteCalls : i = Len(progress)

\* C17: the extension crawl only goes Idle -> Running, Running -> Stopped and
\* Running -> Completed, the last only with the queue empty or pagesVisited at
\* maxPages; Stopped and Completed are left by no step.
C17_Lifecycle ==
    [][impl = "extension" =>
          \/ pc' = pc
          \/ pc = "idle" /\ pc' = "running"
          \/ pc = "running" /\ pc' = "stopped"
          \/ /\ pc = "running" /\ pc' = "completed"
             /\ urlQueue' = <<>> \/ stats'.pagesVisited >= config.maxPages]_vars

\* the danger words the claim lists
ListedDangerWords ==
    { <<"l", "o", "g", "o", "u", "t">>, <<"s", "i", "g", "n", " ", "o", "u", "t">>,
      <<"d", "e", "l", "e", "t", "e">>, <<"r", "e", "m", "o", "v", "e">> }

\* the text contains, case-insensitively, one of the words
ContainsOneOf(text, words) == \E w \in words : Includes(LowerSeq(text), w)

\* C18 as stated: isSafeButton is false exactly for the buttons whose text
\* contains one of logout, sign out, delete, remove, whatever the case.
C18_SafeAsStated ==
    args.op = "buttons" =>
        \A i \in DOMAIN result.extractedButtons :
            result.extractedButtons[i].isSafeButton
                <=> ~ContainsOneOf(result.extractedButtons[i].text, ListedDangerWords)

\* C18 amended: isSafeButton is false exactly for the buttons whose innerText,
\* or value when the innerText is empty, contains one of logout, log out,
\* sign out, delete, remove, whatever the case; 'Delete Account' gives false
\* and 'Save Changes' gives true.
C18_SafeAmended ==
    args.op = "buttons" =>
        \A i \in DOMAIN result.extractedButtons :
            /\ result.extractedButtons[i].isSafeButton
                   <=> ~ContainsOneOf(OrElse(args.buttons[i].innerText, args.buttons[i].value),
                                      ListedDangerWords \cup {<<"l", "o", "g", " ", "o", "u", "t">>})
            /\ args.buttons[i].innerText = <<"D", "e", "l", "e", "t", "e", " ", "A", "c", "c", "o", "u", "n", "t">>
                   => ~result.extractedButtons[i].isSafeButton
            /\ args.buttons[i].innerText = <<"S", "a", "v", "e", " ", "C", "h", "a", "n", "g", "e", "s">>
                   => result.extractedButtons[i].isSafeButton

\* a page with a 'Delete Account' and a 'Save Changes' button was extracted
C18_Witness ==
    /\ args.op = "buttons" /\ Len(result.extractedButtons) = 2
    /\ args.buttons[1].innerText = <<"D", "e", "l", "e", "t", "e", " ", "A", "c", "c", "o", "u", "n", "t">>
    /\ ~result.extractedButtons[1].isSafeButton
    /\ args.buttons[2].innerText = <<"S", "a", "v", "e", " ", "C", "h", "a", "n", "g", "e", "s">>
    /\ result.extractedButtons[2].isSafeButton

\* C19: the URL of every page or tab that has been opened for a visit is in
\* the visited set, so that shouldCrawl is false for it from the start of the
\* navigation on.
C19_VisitedBeforeNavigation ==
    \A t \in DOMAIN openTabs :
        /\ openTabs[t].url \in visitedUrls
        /\ ~shouldCrawl(openTabs[t].url)

\* C20: no URL is in the queue twice.
C20_EnqueuedOnce ==
    \A i, j \in DOMAIN urlQueue : urlQueue[i].url = urlQueue[j].url => i = j


\* the navigations the state still shows: the tab or page and the URL of
\* every tab being created, open, waited for, inspected or processed
Navigations ==
    {[tab |-> cb.tab, url |-> cb.url] :
         cb \in {c \in pending : c.type \in {"created", "timer", "script", "shot"}}}
    \cup {[tab |-> t, url |-> openTabs[t].url] : t \in DOMAIN openTabs}
    \cup {[tab |-> hist.visits[i].visit, url |-> hist.visits[i].url] :
              i \in 1..Len(hist.visits)}

C22_ClosedBeforeNext ==
    \A t \in DOMAIN openTabs :
        /\ impl = "puppeteer" => pc = "goto" /\ t = cur.visit
        /\ pc \notin {"done", "completed", "failed"}
        /\ \A u \in DOMAIN openTabs : u = t
        /\ \A cb \in pending : cb.type = "created" => cb.tab = t


C24_StopClosesTabs ==
    stopResult.success => tabIds = <<>> /\ DOMAIN openTabs = {}


\* the links a visit discovers on a page: what extractLinks (Puppeteer) or the
\* extraction script (extension) returns for it
DiscoveredLinks(page) ==
    IF impl = "puppeteer"
    THEN SelectSeq(ExtractLinks(page), LAMBDA l : l.type = "link")
    ELSE AsLinks(ExtractedLinks(page))

\* the targets of the links discovered at url that normalize and pass
\* shouldCrawl, the page itself being visited
AcceptedTargets(url, visited) ==
    {n \in {normalizeUrl(DiscoveredLinks(PageAt(site, url))[k].url, url) :
                k \in 1..Len(DiscoveredLinks(PageAt(site, url)))} :
         n # NullStr /\ shouldCrawlIn(n, visited \cup {url})}

\* the queue entries and the entries already shifted for a tab being created
Enqueued(queue, callbacks) ==
    {queue[i] : i \in 1..Len(queue)}
    \cup {[url |-> cb.url, depth |-> cb.depth] :
              cb \in {c \in callbacks : c.type = "created"}}

\* C25: the step that processes a page visited at depth d appends, for every
\* accepted link target, a 'link' edge from the page's node to the target's
\* node, and has the target in the queue with depth d + 1 exactly when
\* d + 1 <= maxDepth.
C25_LinkEdgeAndDepth ==
    [][(Len(hist'.visits) > Len(hist.visits) /\ stats'.linksFound > stats.linksFound) =>
          \A n \in AcceptedTargets(hist'.visits[Len(hist'.visits)].url, visitedUrls) :
              /\ \E i \in (1..Len(siteGraph'.edges)) \ (1..Len(siteGraph.edges)) :
                     siteGraph'.edges[i] =
                         [from |-> getNodeId(hist'.visits[Len(hist'.visits)].url),
                          to |-> getNodeId(n), type |-> "link"]
              /\ (hist'.visits[Len(hist'.visits)].depth + 1 <= config.maxDepth)
                 <=> ([url |-> n, depth |-> hist'.visits[Len(hist'.visits)].depth + 1]
                          \in Enqueued(urlQueue', pending'))]_vars


VirtualUrls ==
    {siteGraph.nodes[i].url : i \in {j \in DOMAIN siteGraph.nodes : siteGraph.nodes[j].virtual}}

\* C27: virtual nodes are leaves: no edge starts at a virtual node, and no
\* URL of a virtual node is in the queue, in the visited set or navigated to.
C27_VirtualLeaves ==
    /\ \A i \in 1..Len(siteGraph.edges) :
           siteGraph.edges[i].from \in DOMAIN siteGraph.nodes
               => ~siteGraph.nodes[siteGraph.edges[i].from].virtual
    /\ \A u \in VirtualUrls :
           /\ u \notin visitedUrls
           /\ \A i \in 1..Len(urlQueue) : urlQueue[i].url # u
           /\ \A n \in Navigations : n.url # u


\* the discovered links of the page at url that normalize and pass shouldCrawl,
\* each occurrence counted
AcceptedLinks(url, visited) ==
    {k \in 1..Len(DiscoveredLinks(PageAt(site, url))) :
         /\ normalizeUrl(DiscoveredLinks(PageAt(site, url))[k].url, url) # NullStr
         /\ shouldCrawlIn(normalizeUrl(DiscoveredLinks(PageAt(site, url))[k].url, url),
                          visited \cup {url})}

\* C28: every step keeps every node id and keeps the edge list as a prefix of
\* the new edge list; a page visit appends one 'link' edge for every accepted
\* link it discovered, repeated links included.
C28_GraphGrows ==
    [][/\ DOMAIN siteGraph.nodes \subseteq DOMAIN siteGraph'.nodes
       /\ Len(siteGraph.edges) <= Len(siteGraph'.edges)
       /\ SubSeq(siteGraph'.edges, 1, Len(siteGraph.edges)) = siteGraph.edges
       /\ (Len(hist'.visits) > Len(hist.visits) /\ stats'.linksFound > stats.linksFound)
          => Len(LinkEdges') - Len(LinkEdges)
                 = Cardinality(AcceptedLinks(hist'.visits[Len(hist'.visits)].url,
                                             visitedUrls))]_vars

\* two pages were visited, and the same link was discovered twice and gave
\* two equal edges
C28_Witness ==
    /\ Len(hist.visits) = 2
    /\ \E i, j \in 1..Len(siteGraph.edges) :
           i < j /\ siteGraph.edges[i] = siteGraph.edges[j]
                 /\ siteGraph.edges[i].type = "link"


\* C29: a step that records the failure of a script evaluation on a loaded
\* page (metadata, links or page data) adds no node for that page.
C29_ExtractionSkips ==
    [][\A i \in (1..Len(stats'.errors)) \ (1..Len(stats.errors)) :
           stats'.errors[i].kind \in {"metadata", "links", "extract"}
               => getNodeId(stats'.errors[i].url)
                      \notin DOMAIN siteGraph'.nodes \ DOMAIN siteGraph.nodes]_vars


\* C30: a crawler whose start URL has a scheme other than http or https never
\* leaves Idle except into a failure, and never has a page, a tab or a tab
\* creation of its own.
C30_BadSchemeRejected ==
    ~ProtocolStartsWithHttp(ParseAbsolute(startUrl)) =>
        /\ pc \in {"idle", "failed"}
        /\ DOMAIN openTabs = {}
        /\ pending = {}


\* C31: the element index holds exactly the elements that the visits of this
\* crawl extracted.
C31_OwnElementsOnly ==
    result.interactiveElements = result.collected


\* C32: at most one navigation attempt (one page.goto) is made for a URL.
C32_OneAttempt ==
    result.op = "navigate" => result.attempts <= 1


\* C33: the crawl is breadth-first: the depths of the queue entries are
\* non-decreasing from head to tail, and pages are visited in non-decreasing
\* depth order.
C33_BreadthFirst ==
    /\ \A i, j \in 1..Len(urlQueue) : i < j => urlQueue[i].depth <= urlQueue[j].depth
    /\ \A i, j \in 1..Len(hist.visits) : i < j => hist.visits[i].depth <= hist.visits[j].depth
    /\ result.op = "crawl" =>
           \A i, j \in 1..Len(result.order) :
               i < j => result.order[i].depth <= result.order[j].depth


\* the same-host pages the links of the page at url lead to, as shouldCrawl
\* sees them before anything is visited
CrawlableTargets(url) ==
    {n \in {normalizeUrl(h, url) :
                h \in {PageAt(site, url).anchors[k] : k \in 1..Len(PageAt(site, url).anchors)}
                          \ {<<>>}} :
         /\ n # NullStr
         /\ n \in DOMAIN site
         /\ shouldCrawlIn(n, {})
         /\ Hostname(ParseAbsolute(n)) = baseHostname}

\* the pages reachable from the start URL by a chain of at most k such links
RECURSIVE ReachableWithin(_)
ReachableWithin(k) ==
    IF k = 0 THEN {startUrl}
    ELSE ReachableWithin(k - 1)
         \cup UNION {CrawlableTargets(u) : u \in ReachableWithin(k - 1)}

\* the crawl ended with no failure, below maxPages, on a site none of whose
\* pages has more than maxLinksPerPage links
WithinLimits ==
    /\ CleanEnd
    /\ stats.pagesVisited < config.maxPages
    /\ \A u \in DOMAIN site : Len(site[u].anchors) <= config.maxLinksPerPage

Advances(t) ==
    Cardinality({i \in 1..Len(hist.visits) : hist.visits[i].visit = t})
    + Cardinality({i \in ErrorsOfVisit(t) :
                       stats.errors[i].kind \in {"extract", "process", "timeout"}})

\* the chains of processNextUrl continuations that are active: a tab being
\* created, a tab tracked until its page is handled, a tab being removed
ActiveChains ==
    Cardinality({cb \in pending : cb.type \in {"created", "removed"}}) + Len(tabIds)

\* C35: the extension's scheduler is advanced at most once for each tab it
\* opened, and at most one chain of processNextUrl continuations is active.
C35_AdvancedOnce ==
    impl = "extension" =>
        /\ \A t \in 1..(nextTab - 1) : Advances(t) <= 1
        /\ ActiveChains <= 1

\* C36: the node of a page that was visited is a real node: no button's
\* virtual node is stored over it, and addNode leaves no node that is both
\* virtual and the node of a visited page.
C36_RealNodesKept ==
    \A i \in 1..Len(hist.visits) :
        getNodeId(hist.visits[i].url) \in DOMAIN siteGraph.nodes =>
            ~siteGraph.nodes[getNodeId(hist.visits[i].url)].virtual

\* C37: in every terminated state, Completed or Stopped, each edge of the
\* graph goes from an existing node to an existing node.
C37_EdgesBetweenNodes ==
    Terminated =>
        \A i \in 1..Len(siteGraph.edges) :
            /\ siteGraph.edges[i].from \in DOMAIN siteGraph.nodes
            /\ siteGraph.edges[i].to \in DOMAIN siteGraph.nodes

\* C38: addNode called twice with the same URL and metadata leaves the graph
\* that one call left, the value of lastVisited aside: the same nodes with the
\* same fields and values.
C38_AddNodeIdempotent ==
    args.op = "addNode" /\ args.calls = 2 => siteGraph = result.once

\* C39: a call of startCrawl made while a crawl is in progress fails with
\* 'Crawl already in progress' and leaves the queue, the visited set, the
\* graph, the statistics, the open tabs and the progress callback as they were.
C39_StartRejected ==
    [][(result.op = "startCrawl" /\ crawlInProgress /\ result'.calls # result.calls) =>
           /\ result'.outcome = "Crawl already in progress"
           /\ UNCHANGED <<urlQueue, visitedUrls, siteGraph, stats, openTabs, tabIds,
                          progress, args>>]_vars

\* a call of startCrawl was rejected in a crawl that had visited a page, had
\* links queued and had a tab open
C39_Witness ==
    /\ result.op = "startCrawl" /\ result.outcome = "Crawl already in progress"
    /\ crawlInProgress
    /\ Len(hist.visits) >= 1
    /\ Len(urlQueue) >= 1
    /\ DOMAIN openTabs # {}

====
